---- MODULE Spec2Model ----
(***************************************************************************)
(* Model of the socmed Instagram pipeline: the JSON record store           *)
(* (storage/json_store.py) and the pipelines that write to it              *)
(* (browser_enricher.py, media_extractor.py, api_bootstrap.py).            *)
(*                                                                         *)
(* A record (a Python dict) is a function from field names to values; a    *)
(* field a dict does not have is a field outside the function's DOMAIN.    *)
(* A store file is [st, items]: st says whether the path is absent, holds  *)
(* a completely written JSON array, or holds a prefix of one.              *)
(***************************************************************************)
EXTENDS Integers, Sequences, FiniteSets, TLC

VARIABLES
    fs,        \* fs[path]: the files of the store directory (archive and temp files)
    lock,      \* holder of the flock on <path>.lock, or NoProc
    pc,        \* pc[p]: position of process p inside its store call
    call,      \* call[p]: the store call process p makes (kept after return)
    loc,       \* loc[p]: the list the call holds in memory (posts / existing)
    ret,       \* ret[p]: the value the call returns
    failed,    \* failed[p]: the call raised
    before,    \* before[p]: the list the call got from read()
    repeat,    \* repeat[p]: the call has the arguments of p's previous call
    done,      \* done[p]: key -> updates of the patches p has written to the archive
    disk,      \* disk[path]: the media files under the media directory
    ext,       \* the Extractor process: its position, arguments and locals
    enr,       \* the Enricher's run loop
    dl,        \* the Enricher's download-media mode
    boot,      \* the Bootstrap
    tracker,   \* the sync state file: cursor key -> cursor
    rt,        \* a call of a function wrapped by retry()
    codec,     \* a call of fetch_post_rest
    ocr,       \* a call of deduplicate_ocr_texts, or the media loop of one post
    loop,      \* the control of the Enricher's loop over a long pending list
    saves      \* the sync state file as a list, and the SyncTracker.save calls

storeVars == <<fs, lock, pc, call, loc, ret, failed, before, repeat, done>>

pipeVars == <<disk, ext, enr, dl, boot, tracker>>

utilVars == <<rt, codec, ocr, loop, saves>>

vars == <<storeVars, pipeVars, utilVars>>

(***************************************************************************)
(* Bounds of the model.                                                    *)
(***************************************************************************)
\* longest list of records a store call may produce
MaxStore == 3
\* longest batch handed to append
MaxBatch == 2
\* number of Extractor runs
MaxRuns == 2

\* the largest max_attempts of a retry() decorator
MaxAttempts == 3

(***************************************************************************)
(* Values.                                                                 *)
(***************************************************************************)
NoProc == "nobody"

\* dict.get(key_field) of a dict without that field
None == "<None>"

\* a string holding a lone surrogate, and what encode(errors="replace") makes of it
LoneSurrogate == "\\ud83c"
Replaced == "?"

key_field == "id"

\* Python truthiness of a key: None and "" are falsy
Truthy(key) == key \notin {None, ""}

KeyOf(item) == IF key_field \in DOMAIN item THEN item[key_field] ELSE None

\* dict.update / {**rec, **updates}
Update(rec, updates) ==
    [f \in (DOMAIN rec) \cup (DOMAIN updates) |->
        IF f \in DOMAIN updates THEN updates[f] ELSE rec[f]]

\* d[k] = v on a dict modelled as a function
Put(d, k, v) == [x \in (DOMAIN d) \cup {k} |-> IF x = k THEN v ELSE d[x]]

EmptyDict == [x \in {} |-> 0]

Range(s) == {s[i] : i \in DOMAIN s}

SeqsUpTo(S, n) == UNION {[1..m -> S] : m \in 0..n}

(***************************************************************************)
(* The pipelines before they run.  limit=None and limit=0 are both falsy.  *)
(* Fields of ext after blind are history kept for the properties: the ids  *)
(* that had extracted_text / were eligible at the run's read, were         *)
(* processed, had Whisper or OCR invoked, were handed to patch_items, were *)
(* processed with no local file on disk; how the latest and the previous   *)
(* run ended, and with which arguments.                                    *)
(***************************************************************************)
NoLimit == 0

NoOpts ==
    [collection |-> None, limit |-> NoLimit, save_every |-> 1,
     skip_whisper |-> FALSE, skip_ocr |-> FALSE]

ExtFresh ==
    [at |-> "start", run |-> 0, opts |-> NoOpts, candidates |-> <<>>, ci |-> 0,
     n_videos |-> 0, whisper_model |-> FALSE, pending_patches |-> EmptyDict,
     processed |-> 0,
     had |-> {}, elig |-> {}, took |-> {}, invoked |-> {}, sent |-> {},
     blind |-> {}, last |-> "none", lastOpts |-> NoOpts,
     prev |-> "none", prevOpts |-> NoOpts]

\* apply_results, lines 362-364 and 434-439: the counts it returns
NoCounts == [enriched |-> 0, deleted |-> 0, failed |-> 0]

\* run_enrichment, lines 442-448 and 487-495: the defaults and the locals.
\* _graphql_available is the module's flag (line 240).  Fields of enr after
\* run are history kept for the properties: the list the run read, the ids
\* of the records earlier runs had patched, the ids the run has fetched, the
\* ids whose fetch ended in error or rate_limited, the HTTP requests of the
\* run, the cursors it has saved, the counts of its latest apply_results,
\* whether an exception ended it, whether a failed cookie refresh ended it,
\* (after pending_futures) the results it has fetched and the results it
\* has passed to apply_results.
EnrDefaults ==
    [limit |-> NoLimit, collection |-> None, save_every |-> 25, download_media |-> TRUE]

EnrFresh ==
    [at |-> "start", opts |-> EnrDefaults, pending |-> <<>>, i |-> 0,
     results_batch |-> <<>>, rate_limited |-> FALSE, consecutive_failures |-> 0,
     needs_cooldown |-> FALSE, graphql_available |-> TRUE,
     run |-> 0, seen |-> <<>>, past |-> {}, fetched |-> {}, refused |-> {},
     requests |-> <<>>, marks |-> <<>>, counts |-> NoCounts,
     raised |-> FALSE, broke |-> FALSE,
     pending_futures |-> <<>>, results |-> <<>>, handed |-> <<>>]

\* run_media_download, lines 645-683; _graphql_available is True when the
\* module is loaded (line 240)
DlFresh ==
    [at |-> "start", limit |-> NoLimit, posts |-> <<>>, needs_media |-> <<>>, i |-> 0,
     graphql_available |-> TRUE]

\* run_sync, lines 248-296
BootFresh ==
    [at |-> "start", existing_ids |-> {}, new_posts |-> <<>>,
     existing |-> <<>>, last |-> None]

\* sync_state.json before any run: no cursor
NoCursors == EmptyDict

\* retry.py, lines 13-19 and 33: a wrapped function that has not been called;
\* calls, sleeps and notified are the invocations of the wrapped function,
\* the time.sleep calls and the on_retry calls so far
NoException == [type |-> "none", attempt |-> 0]

RetryFresh ==
    [at |-> "idle", max_attempts |-> 0, base_delay |-> 0, max_delay |-> 0,
     on_retry |-> FALSE, attempt |-> 0, calls |-> 0, sleeps |-> <<>>,
     notified |-> <<>>, last_exception |-> NoException, raises |-> NoException]

\* fetch_post_rest before it is called; requests counts its HTTP requests,
\* decoded the calls of shortcode_to_pk
RestFresh ==
    [at |-> "idle", shortcode |-> <<>>, pk |-> 0, status |-> None,
     message |-> None, requests |-> 0, decoded |-> 0, results |-> 0]

\* deduplicate_ocr_texts before it is called
OcrFresh == [at |-> "idle", texts |-> <<>>, out |-> <<>>]

\* the loop of run_enrichment before the run starts (lines 487-495); n is
\* len(pending) and i the index of the next fetch.  Of the last fetch: status
\* is its result's status, requests the requests it made, first says that the
\* session had made no fetch before it, peaked that lines 530-542 left
\* consecutive_failures at MAX_CONSECUTIVE_FAILURES or more, events what the
\* iteration did after the fetch.
LoopFresh ==
    [at |-> "start", n |-> 0, i |-> 0, rate_limited |-> FALSE,
     consecutive_failures |-> 0, graphql_available |-> TRUE,
     status |-> None, requests |-> <<>>, first |-> FALSE, peaked |-> FALSE,
     events |-> <<>>, raised |-> FALSE]

\* sync_state.json before any run, as the list JsonStore reads, and the two
\* pipelines outside SyncTracker.save; last is the cursor of each key whose
\* save has returned latest, n the number of save calls made
NoSave == [at |-> "idle", items |-> <<>>, cursor |-> [key |-> ""], n |-> 0]

SavesFresh ==
    [file |-> <<>>, enr |-> NoSave, boot |-> NoSave, last |-> EmptyDict]

NoPipes ==
    /\ disk = EmptyDict
    /\ ext = ExtFresh
    /\ enr = EnrFresh
    /\ dl = DlFresh
    /\ boot = BootFresh
    /\ tracker = NoCursors
    /\ rt = RetryFresh
    /\ codec = RestFresh
    /\ ocr = OcrFresh
    /\ loop = LoopFresh
    /\ saves = SavesFresh

(***************************************************************************)
(* _sanitize_surrogates: every string of the structure is re-encoded.      *)
(* The string-valued fields of a record are the ones below; media is a     *)
(* list of dicts of strings, author a dict of strings, extracted_text a    *)
(* dict whose strings never come from the web.                             *)
(***************************************************************************)
SanitizeStr(s) == IF s = LoneSurrogate THEN Replaced ELSE s

StringFields == {"id", "text", "source", "note"}

SanitizeMedia(m) == [f \in DOMAIN m |-> SanitizeStr(m[f])]

SanitizeItem(item) ==
    [f \in DOMAIN item |->
        IF f \in StringFields THEN SanitizeStr(item[f])
        ELSE IF f = "media"
             THEN [i \in DOMAIN item[f] |-> SanitizeMedia(item[f][i])]
             ELSE IF f = "author" THEN SanitizeMedia(item[f])
             ELSE item[f]]

_sanitize_surrogates(items) == [i \in DOMAIN items |-> SanitizeItem(items[i])]

(***************************************************************************)
(* Files.                                                                  *)
(***************************************************************************)
NoFile == [st |-> "absent", items |-> <<>>]

FullFile(items) == [st |-> "full", items |-> items]

\* JsonStore.read: [] for a missing file; a prefix of an array does not parse
ReadFails(f) == f.st = "partial"

ReadFile(f) == IF f.st = "full" THEN f.items ELSE <<>>


\* the store path, and the path mkstemp gives to process p
ArchivePath == "saved_posts.json"

\* mutant: write() dumps straight into the store path
TempPath_InPlace(p) == ArchivePath

TempPath(p) == p

archive == fs[ArchivePath]

(***************************************************************************)
(* JsonStore.patch_items, lines 104-112: the list after the patches, and   *)
(* the number of patches that matched.                                     *)
(***************************************************************************)
\* {p.get(key_field): i for i, p in enumerate(posts)}: the last index wins
key_to_idx(posts) ==
    [k \in {KeyOf(posts[i]) : i \in DOMAIN posts} |->
        CHOOSE i \in DOMAIN posts :
            /\ KeyOf(posts[i]) = k
            /\ \A j \in DOMAIN posts : KeyOf(posts[j]) = k => j <= i]

\* mutant: the record is replaced by the updates
PatchOne_Replace(post, updates) == updates

\* line 111: posts[idx].update(updates)
PatchOne(post, updates) == Update(post, updates)

PatchedPosts(posts, patches) ==
    LET idx == key_to_idx(posts)
    IN  [i \in DOMAIN posts |->
            IF \E k \in DOMAIN patches : k \in DOMAIN idx /\ idx[k] = i
            THEN PatchOne(posts[i],
                          patches[CHOOSE k \in DOMAIN patches :
                                      k \in DOMAIN idx /\ idx[k] = i])
            ELSE posts[i]]

PatchedCount(posts, patches) ==
    Cardinality({k \in DOMAIN patches : k \in DOMAIN key_to_idx(posts)})

(***************************************************************************)
(* JsonStore.append, lines 130-148.                                        *)
(***************************************************************************)
NoMerge == "none"

\* the merge functions a caller may pass: lambda e, n: n  and  {**e, **n}
MergeFns == {"replace", "update"}

merge_fn(fn, existing, new) ==
    IF fn = "replace" THEN new ELSE Update(existing, new)

RECURSIVE BuildKeys(_, _, _)
\* lines 131-135: existing_keys[key] = i for every item with a truthy key
BuildKeys(existing, i, keys) ==
    IF i > Len(existing) THEN keys
    ELSE BuildKeys(existing, i + 1,
                   IF Truthy(KeyOf(existing[i]))
                   THEN Put(keys, KeyOf(existing[i]), i) ELSE keys)

\* mutant: the key map is never filled from the file
existing_keys_Empty(existing) == EmptyDict

existing_keys(existing) == BuildKeys(existing, 1, EmptyDict)

\* mutant: the place of an appended item is not remembered
KeysAfterAppend_Forget(keys, key, idx) == keys

\* lines 146-147: remember where the appended item went
KeysAfterAppend(keys, key, idx) ==
    IF Truthy(key) THEN Put(keys, key, idx) ELSE keys

\* mutant: a duplicate is skipped even when a merge function is given
MergeAt_Skip(existing, idx, fn, item) == existing

\* lines 141-143: existing[idx] = merge_fn(existing[idx], item)
MergeAt(existing, idx, fn, item) ==
    IF fn # NoMerge
    THEN [existing EXCEPT ![idx] = merge_fn(fn, @, item)]
    ELSE existing

RECURSIVE AppendLoop(_, _, _, _, _)
\* lines 137-148
AppendLoop(existing, keys, added, new_items, fn) ==
    IF new_items = <<>> THEN [items |-> existing, added |-> added]
    ELSE LET item == Head(new_items)
             key == KeyOf(item)
         IN  IF Truthy(key) /\ key \in DOMAIN keys
             THEN AppendLoop(MergeAt(existing, keys[key], fn, item),
                             keys, added, Tail(new_items), fn)
             ELSE AppendLoop(
                      Append(existing, item),
                      KeysAfterAppend(keys, key, Len(existing) + 1),
                      added + 1, Tail(new_items), fn)

AppendResult(existing, new_items, fn) ==
    AppendLoop(existing, existing_keys(existing), 0, new_items, fn)

(***************************************************************************)
(* The processes of the models.  Each makes store calls; a call is a run   *)
(* of the steps below.                                                     *)
(***************************************************************************)
ApiProcs == {"api"}

Writers == {"enr", "ext"}

\* the four pipelines that run on the archive
Pipelines == {"enr", "dl", "boot", "ext"}

Procs == ApiProcs \cup Writers \cup Pipelines

Paths == {ArchivePath} \cup Procs

NoCall == [op |-> "none", patches |-> EmptyDict, new_items |-> <<>>, fn |-> NoMerge]

PatchCall(patches) == [NoCall EXCEPT !.op = "patch", !.patches = patches]

AppendCall(new_items, fn) ==
    [NoCall EXCEPT !.op = "append", !.new_items = new_items, !.fn = fn]

WriteCall(items) == [NoCall EXCEPT !.op = "write", !.new_items = items]

\* dict.update of the committed patches by the patches of one more call
MergePatches(old, patches) ==
    [k \in (DOMAIN old) \cup (DOMAIN patches) |->
        IF k \in DOMAIN patches
        THEN IF k \in DOMAIN old THEN Update(old[k], patches[k]) ELSE patches[k]
        ELSE old[k]]

\* the patches of a call whose key is the key of a record the call read
Matched(posts, patches) ==
    [k \in {x \in DOMAIN patches : x \in DOMAIN key_to_idx(posts)} |-> patches[k]]

\* mutant: the lock is not exclusive
LockFree_Always(p) == TRUE

\* fcntl.flock(lock_file, LOCK_EX) returns when no other process holds the lock
LockFree(p) == lock = NoProc

(***************************************************************************)
(* Entering a call (the caller's action conjoins one of these).            *)
(***************************************************************************)
\* patch_items, lines 95-99: no patches, no lock, no write
StartPatch(p, patches) ==
    /\ pc[p] = "idle"
    /\ call' = [call EXCEPT ![p] = PatchCall(patches)]
    /\ repeat' = [repeat EXCEPT ![p] = FALSE]
    /\ failed' = [failed EXCEPT ![p] = FALSE]
    /\ IF DOMAIN patches = {}
       THEN /\ ret' = [ret EXCEPT ![p] = 0]
            /\ pc' = pc
       ELSE /\ ret' = ret
            /\ pc' = [pc EXCEPT ![p] = "lock"]
    /\ UNCHANGED <<fs, lock, loc, before, done>>

StartAppend(p, new_items, fn) ==
    /\ pc[p] = "idle"
    /\ call' = [call EXCEPT ![p] = AppendCall(new_items, fn)]
    /\ repeat' = [repeat EXCEPT ![p] = (call[p] = AppendCall(new_items, fn))]
    /\ failed' = [failed EXCEPT ![p] = FALSE]
    /\ pc' = [pc EXCEPT ![p] = "read"]
    /\ UNCHANGED <<fs, lock, loc, ret, before, done>>

StartWrite(p, items) ==
    /\ pc[p] = "idle"
    /\ call' = [call EXCEPT ![p] = WriteCall(items)]
    /\ repeat' = [repeat EXCEPT ![p] = FALSE]
    /\ failed' = [failed EXCEPT ![p] = FALSE]
    /\ loc' = [loc EXCEPT ![p] = items]
    /\ pc' = [pc EXCEPT ![p] = "create"]
    /\ UNCHANGED <<fs, lock, ret, before, done>>

(***************************************************************************)
(* The steps of a call.                                                    *)
(***************************************************************************)
\* patch_items, lines 101-102: open the lock file and take the exclusive lock
PLock(p) ==
    /\ pc[p] = "lock"
    /\ LockFree(p)
    /\ lock' = p
    /\ pc' = [pc EXCEPT ![p] = "read"]
    /\ UNCHANGED <<fs, call, loc, ret, failed, before, repeat, done>>
    /\ UNCHANGED <<pipeVars, utilVars>>

\* patch_items lines 104-112 / append lines 130-148: read() and the work in memory
SRead(p) ==
    /\ pc[p] = "read"
    /\ IF ReadFails(archive)
       THEN /\ failed' = [failed EXCEPT ![p] = TRUE]
            /\ pc' = [pc EXCEPT ![p] = IF call[p].op = "patch" THEN "unlock" ELSE "return"]
            /\ UNCHANGED <<loc, ret, before>>
       ELSE LET items == ReadFile(archive)
            IN  /\ before' = [before EXCEPT ![p] = items]
                /\ IF call[p].op = "patch"
                   THEN /\ loc' = [loc EXCEPT ![p] = PatchedPosts(items, call[p].patches)]
                        /\ ret' = [ret EXCEPT ![p] = PatchedCount(items, call[p].patches)]
                   ELSE LET r == AppendResult(items, call[p].new_items, call[p].fn)
                        IN  /\ loc' = [loc EXCEPT ![p] = r.items]
                            /\ ret' = [ret EXCEPT ![p] = r.added]
                /\ pc' = [pc EXCEPT ![p] = "create"]
                /\ failed' = failed
    /\ UNCHANGED <<fs, lock, call, repeat, done>>
    /\ UNCHANGED <<pipeVars, utilVars>>

\* write, lines 64-73: sanitize, mkstemp, and the first bytes of the dump
WCreate(p) ==
    /\ pc[p] = "create"
    /\ fs' = [fs EXCEPT ![TempPath(p)] =
                 [st |-> "partial", items |-> _sanitize_surrogates(loc[p])]]
    /\ pc' = [pc EXCEPT ![p] = "dump"]
    /\ UNCHANGED <<lock, call, loc, ret, failed, before, repeat, done>>
    /\ UNCHANGED <<pipeVars, utilVars>>

\* write, lines 73-74: the rest of the dump, the trailing newline, close
WDump(p) ==
    /\ pc[p] = "dump"
    /\ fs' = [fs EXCEPT ![TempPath(p)].st = "full"]
    /\ pc' = [pc EXCEPT ![p] = "move"]
    /\ UNCHANGED <<lock, call, loc, ret, failed, before, repeat, done>>
    /\ UNCHANGED <<pipeVars, utilVars>>

\* write, line 75: shutil.move(tmp_path, self.path), a rename in one directory
WMove(p) ==
    /\ pc[p] = "move"
    /\ fs' = [fs EXCEPT ![ArchivePath] = fs[TempPath(p)], ![TempPath(p)] = NoFile]
    /\ pc' = [pc EXCEPT ![p] = IF call[p].op = "patch" THEN "unlock" ELSE "return"]
    /\ done' = [done EXCEPT ![p] =
                   IF call[p].op = "patch"
                   THEN MergePatches(@, Matched(before[p], call[p].patches))
                   ELSE @]
    /\ UNCHANGED <<lock, call, loc, ret, failed, before, repeat>>
    /\ UNCHANGED <<pipeVars, utilVars>>

\* mutant: write() has no except clause, the temp file stays
WFail_LeavesTemp(p) ==
    /\ pc[p] \in {"dump", "move"}
    /\ fs' = fs
    /\ failed' = [failed EXCEPT ![p] = TRUE]
    /\ pc' = [pc EXCEPT ![p] = IF call[p].op = "patch" THEN "unlock" ELSE "return"]
    /\ UNCHANGED <<lock, call, loc, ret, before, repeat, done>>
    /\ UNCHANGED <<pipeVars, utilVars>>

\* write, lines 76-78: mkstemp has made the temp file and the dump or the
\* rename raises (an OSError of the disk): the temp file is removed and the
\* exception goes to the caller
WFail(p) ==
    /\ pc[p] \in {"dump", "move"}
    /\ fs' = [fs EXCEPT ![TempPath(p)] = NoFile]
    /\ failed' = [failed EXCEPT ![p] = TRUE]
    /\ pc' = [pc EXCEPT ![p] = IF call[p].op = "patch" THEN "unlock" ELSE "return"]
    /\ UNCHANGED <<lock, call, loc, ret, before, repeat, done>>
    /\ UNCHANGED <<pipeVars, utilVars>>

\* mutant: the unlock is not in a finally clause
PUnlock_OnSuccess(p) ==
    /\ pc[p] = "unlock"
    /\ lock' = IF lock = p /\ ~failed[p] THEN NoProc ELSE lock
    /\ pc' = [pc EXCEPT ![p] = "idle"]
    /\ loc' = [loc EXCEPT ![p] = <<>>]
    /\ before' = [before EXCEPT ![p] = <<>>]
    /\ UNCHANGED <<fs, call, ret, failed, repeat, done>>
    /\ UNCHANGED <<pipeVars, utilVars>>

\* patch_items, lines 115-117: finally: flock(LOCK_UN), and return
PUnlock(p) ==
    /\ pc[p] = "unlock"
    /\ lock' = IF lock = p THEN NoProc ELSE lock
    /\ pc' = [pc EXCEPT ![p] = "idle"]
    /\ loc' = [loc EXCEPT ![p] = <<>>]
    /\ before' = [before EXCEPT ![p] = <<>>]
    /\ UNCHANGED <<fs, call, ret, failed, repeat, done>>
    /\ UNCHANGED <<pipeVars, utilVars>>

\* append, line 151 / write, line 75: the call returns to its caller
SReturn(p) ==
    /\ pc[p] = "return"
    /\ pc' = [pc EXCEPT ![p] = "idle"]
    /\ loc' = [loc EXCEPT ![p] = <<>>]
    /\ before' = [before EXCEPT ![p] = <<>>]
    /\ UNCHANGED <<fs, lock, call, ret, failed, repeat, done>>
    /\ UNCHANGED <<pipeVars, utilVars>>

\* the process is killed inside a call: the kernel drops its lock, its temp
\* file stays where it is
Kill(p) ==
    /\ pc[p] \notin {"idle", "dead"}
    /\ pc' = [pc EXCEPT ![p] = "dead"]
    /\ lock' = IF lock = p THEN NoProc ELSE lock
    /\ UNCHANGED <<fs, call, loc, ret, failed, before, repeat, done>>
    /\ UNCHANGED <<pipeVars, utilVars>>

StoreStep(p) ==
    PLock(p) \/ SRead(p) \/ WCreate(p) \/ WDump(p) \/ WMove(p) \/ PUnlock(p) \/ SReturn(p)

InitStore(files) ==
    /\ fs \in {[x \in Paths |-> IF x = ArchivePath THEN f ELSE NoFile] : f \in files}
    /\ lock = NoProc
    /\ pc = [p \in Procs |-> "idle"]
    /\ call = [p \in Procs |-> NoCall]
    /\ loc = [p \in Procs |-> <<>>]
    /\ ret = [p \in Procs |-> 0]
    /\ failed = [p \in Procs |-> FALSE]
    /\ before = [p \in Procs |-> <<>>]
    /\ repeat = [p \in Procs |-> FALSE]
    /\ done = [p \in Procs |-> EmptyDict]

(***************************************************************************)
(* SpecAppend: one caller appends to the store, call after call.           *)
(***************************************************************************)
StoreKeys == {"a", "b"}

\* what a file written by write() can hold: sanitized records with distinct keys
StoredItems == {[id |-> k, text |-> t] : k \in StoreKeys, t \in {"x", Replaced}}

UniqueIds(items) ==
    \A i, j \in DOMAIN items :
        (i # j /\ Truthy(KeyOf(items[i]))) => KeyOf(items[i]) # KeyOf(items[j])

InitFiles ==
    {NoFile} \cup
    {FullFile(items) : items \in {q \in SeqsUpTo(StoredItems, 2) : UniqueIds(q)}}

\* the items a caller appends: keyed, with an empty key, without the key field
ApiItems ==
    {[id |-> "a", text |-> "x"], [id |-> "a", text |-> LoneSurrogate],
     [id |-> "b", text |-> "x"], [id |-> "", text |-> "x"], [text |-> "x"]}

ApiAppend(p) ==
    \E new_items \in SeqsUpTo(ApiItems, MaxBatch), fn \in MergeFns \cup {NoMerge} :
        /\ Len(ReadFile(archive)) + Len(new_items) <= MaxStore
        /\ StartAppend(p, new_items, fn)
        /\ UNCHANGED <<pipeVars, utilVars>>

InitAppend == InitStore(InitFiles) /\ NoPipes

NextAppend ==
    \E p \in ApiProcs :
        \/ ApiAppend(p)
        \/ SRead(p)
        \/ WCreate(p)
        \/ WDump(p)
        \/ WMove(p)
        \/ SReturn(p)

SpecAppend == InitAppend /\ [][NextAppend]_vars

(***************************************************************************)
(* Claims about append (checked under SpecAppend).                         *)
(***************************************************************************)
HasId(item) == key_field \in DOMAIN item

AppendReturns(p) == pc[p] = "return" /\ call[p].op = "append"

\* C5 as stated: after any sequence of append calls no two records of the
\* store have the same id, whatever the batches hold.
C5_NoTwoRecordsShareAnId ==
    LET items == ReadFile(archive)
    IN  \A i, j \in DOMAIN items :
            (i # j /\ HasId(items[i]) /\ HasId(items[j])) => items[i].id # items[j].id

\* C5 amended: after any sequence of append calls (with or without merge_fn,
\* batches that repeat a key included) no two records of the store have the
\* same non-empty id.
C5_NoTwoRecordsShareAKey == UniqueIds(ReadFile(archive))

\* an append of a batch that names a new key twice has returned
C5_Witness ==
    \E p \in ApiProcs :
        /\ AppendReturns(p)
        /\ Len(call[p].new_items) = 2
        /\ Truthy(KeyOf(call[p].new_items[1]))
        /\ KeyOf(call[p].new_items[1]) = KeyOf(call[p].new_items[2])
        /\ \A i \in DOMAIN before[p] : KeyOf(before[p][i]) # KeyOf(call[p].new_items[1])
        /\ ret[p] = 1

\* the second of two consecutive appends of one item, without merge_fn
SecondAppend(p) ==
    /\ AppendReturns(p)
    /\ repeat[p]
    /\ Len(call[p].new_items) = 1
    /\ call[p].fn = NoMerge

SameAsBefore(p) == ret[p] = 0 /\ ReadFile(archive) = before[p]

\* C6 as stated: for every store state and every item, appending the item a
\* second time returns 0 and leaves the store as the first append left it.
C6_SecondAppendChangesNothing ==
    \A p \in ApiProcs : SecondAppend(p) => SameAsBefore(p)

\* C6 amended: for every store state and every item with a non-empty id,
\* appending the item a second time returns 0 and leaves the store as the
\* first append left it, with one record for that id.
C6_SecondAppendOfKeyedItem ==
    \A p \in ApiProcs :
        (SecondAppend(p) /\ Truthy(KeyOf(call[p].new_items[1]))) =>
            /\ SameAsBefore(p)
            /\ Cardinality({i \in DOMAIN archive.items :
                   KeyOf(archive.items[i]) = KeyOf(call[p].new_items[1])}) = 1

\* the second append of an item with a lone surrogate in its text has returned
C6_Witness ==
    \E p \in ApiProcs :
        /\ SecondAppend(p)
        /\ Truthy(KeyOf(call[p].new_items[1]))
        /\ call[p].new_items[1].text = LoneSurrogate
        /\ ret[p] = 0

\* "its key already exists", read from the claim: some record has the item's id
IdExists(cur, item) ==
    HasId(item) /\ \E i \in DOMAIN cur : HasId(cur[i]) /\ cur[i].id = item.id

\* the same, for ids that are not empty
KeyExists(cur, item) == Truthy(KeyOf(item)) /\ IdExists(cur, item)

RECURSIVE TreatInOrder(_, _, _, _, _)
\* the list the claim describes: each item in order replaces the record with
\* its key by merge_fn(existing, new), is skipped, or goes to the end;
\* strict = TRUE reads "key exists" as IdExists, FALSE as KeyExists
TreatInOrder(cur, n, new_items, fn, strict) ==
    IF new_items = <<>> THEN [items |-> cur, added |-> n]
    ELSE LET item == Head(new_items)
             there == IF strict THEN IdExists(cur, item) ELSE KeyExists(cur, item)
             at == CHOOSE i \in DOMAIN cur : HasId(cur[i]) /\ cur[i].id = item.id
         IN  IF there /\ fn # NoMerge
             THEN TreatInOrder([cur EXCEPT ![at] = merge_fn(fn, cur[at], item)],
                               n, Tail(new_items), fn, strict)
             ELSE IF there
                  THEN TreatInOrder(cur, n, Tail(new_items), fn, strict)
                  ELSE TreatInOrder(Append(cur, item), n + 1, Tail(new_items), fn, strict)

AppendDidAsDescribed(p, strict) ==
    LET want == TreatInOrder(before[p], 0, call[p].new_items, call[p].fn, strict)
    IN  /\ ReadFile(archive) = _sanitize_surrogates(want.items)
        /\ ret[p] = want.added
        /\ ret[p] = Len(ReadFile(archive)) - Len(before[p])

\* C7 as stated: an item whose key already exists is merged (merge_fn given)
\* or skipped (no merge_fn), any other item is appended at the end, and the
\* call returns the number of items appended.
C7_AppendTreatsEachItem ==
    \A p \in ApiProcs : AppendReturns(p) => AppendDidAsDescribed(p, TRUE)

\* C7 amended: an item whose key is not empty and already exists is merged
\* (merge_fn given) or skipped (no merge_fn); any other item, one without a
\* key or with an empty key included, is appended at the end; the call
\* returns the number of items appended, final length minus initial length.
C7_AppendTreatsEachKeyedItem ==
    \A p \in ApiProcs : AppendReturns(p) => AppendDidAsDescribed(p, FALSE)

\* an append with a merge function that merged one item and appended another
C7_Witness ==
    \E p \in ApiProcs :
        /\ AppendReturns(p)
        /\ call[p].fn = "update"
        /\ Len(call[p].new_items) = 2
        /\ KeyExists(before[p], call[p].new_items[1])
        /\ ~KeyExists(before[p], call[p].new_items[2])
        /\ ReadFile(archive) # before[p]
        /\ ret[p] = 1

(***************************************************************************)
(* SpecPatch: the Enricher and the Extractor patch one archive at the same *)
(* time, each its own fields, and either may be killed inside a call.      *)
(***************************************************************************)
Stub(k) == [id |-> k, source |-> "archive", text |-> ""]

PatchInit == <<Stub("a"), Stub("b")>>

\* apply_results, lines 371-414: the Enricher's patch of an ok and of a not_found result
EnrOk == [text |-> LoneSurrogate, source |-> "archive+api"]

EnrDeleted == [text |-> "[Post no longer available]", source |-> "archive:deleted"]

\* run_extraction, line 405: the Extractor's patch (two different extractions)
ExtOne == [extracted_text |-> "e1"]

ExtTwo == [extracted_text |-> "e2"]

\* the patches a writer passes: one record, several records and an unknown key, none
WriterPatches(p) ==
    IF p = "enr"
    THEN {"a" :> EnrOk, "a" :> EnrDeleted,
          "a" :> EnrOk @@ "b" :> EnrDeleted @@ "zz" :> EnrOk, EmptyDict}
    ELSE {"a" :> ExtOne, "a" :> ExtTwo,
          "a" :> ExtTwo @@ "b" :> ExtOne @@ "zz" :> ExtOne, EmptyDict}

WriterPatch(p) ==
    \E patches \in WriterPatches(p) :
        /\ StartPatch(p, patches)
        /\ UNCHANGED <<pipeVars, utilVars>>

InitPatch == InitStore({FullFile(PatchInit)}) /\ NoPipes

NextPatch ==
    \E p \in Writers :
        \/ WriterPatch(p)
        \/ PLock(p)
        \/ SRead(p)
        \/ WCreate(p)
        \/ WDump(p)
        \/ WMove(p)
        \/ PUnlock(p)
        \/ Kill(p)

SpecPatch == InitPatch /\ [][NextPatch]_vars

(***************************************************************************)
(* Claims about patch_items (checked under SpecPatch).                     *)
(***************************************************************************)
\* the updates as write() stores them
Stored(updates) == SanitizeItem(updates)

HoldsUpdates(post, updates) ==
    \A f \in DOMAIN updates : f \in DOMAIN post /\ post[f] = Stored(updates)[f]

\* C1: two writers patch disjoint fields of the same records through
\* patch_items; in every interleaving every record holds the last value each
\* writer has patched into each of its fields.
C1_DisjointPatchesCompose ==
    archive.st = "full" /\
    \A p \in Writers : \A i \in DOMAIN archive.items :
        KeyOf(archive.items[i]) \in DOMAIN done[p] =>
            HoldsUpdates(archive.items[i], done[p][KeyOf(archive.items[i])])

\* the Extractor waits for the lock the Enricher holds after writing record
\* a, which the Extractor has patched before
C1_Witness ==
    /\ pc["enr"] = "unlock" /\ pc["ext"] = "lock"
    /\ "a" \in DOMAIN call["enr"].patches /\ "a" \in DOMAIN call["ext"].patches
    /\ "a" \in DOMAIN done["ext"] /\ "a" \in DOMAIN done["enr"]

\* the array that holds the initial records with the patches written so far
Expected ==
    [i \in DOMAIN PatchInit |->
        LET k == KeyOf(PatchInit[i])
            one == IF k \in DOMAIN done["enr"]
                   THEN Update(PatchInit[i], Stored(done["enr"][k])) ELSE PatchInit[i]
        IN  IF k \in DOMAIN done["ext"]
            THEN Update(one, Stored(done["ext"][k])) ELSE one]

\* C2: at every instant, between the steps of write(), with concurrent
\* patch_items writers and with writers killed at any step, the archive path
\* holds a complete JSON array: the initial records with the patches of the
\* patch_items calls that have replaced the file, and nothing else.
C2_ArchiveAlwaysComplete ==
    archive = FullFile(Expected)

\* a writer was killed while dumping its temp file, and the other writer has
\* replaced the archive since
C2_Witness ==
    \E p, q \in Writers :
        /\ pc[p] = "dead" /\ fs[TempPath(p)].st = "partial"
        /\ fs[TempPath(p)].items # archive.items
        /\ pc[q] = "unlock"

\* C8: patch_items changes only the fields named in patches[k] of the record
\* with key k; other fields, other records, the number and the order of the
\* records stay; unknown keys create nothing; it returns the number of keys
\* that matched (0, without writing, for no patches).
C8_PatchFrame ==
    \A p \in Writers :
        /\ (pc[p] = "unlock" /\ ~failed[p]) =>
            LET old == before[p]
                new == ReadFile(archive)
                pt == call[p].patches
            IN  /\ Len(new) = Len(old)
                /\ \A i \in DOMAIN old :
                      IF KeyOf(old[i]) \in DOMAIN pt
                      THEN /\ DOMAIN new[i] = (DOMAIN old[i]) \cup (DOMAIN pt[KeyOf(old[i])])
                           /\ HoldsUpdates(new[i], pt[KeyOf(old[i])])
                           /\ \A f \in (DOMAIN old[i]) \ (DOMAIN pt[KeyOf(old[i])]) :
                                  new[i][f] = old[i][f]
                      ELSE new[i] = old[i]
                /\ ret[p] = Cardinality({k \in DOMAIN pt :
                                \E i \in DOMAIN old : KeyOf(old[i]) = k})
        /\ (pc[p] = "idle" /\ call[p].op = "patch" /\ DOMAIN call[p].patches = {}) =>
               ret[p] = 0

\* the Extractor has patched two records the Enricher had patched before,
\* with a third key that matches no record
C8_Witness ==
    /\ pc["ext"] = "unlock"
    /\ DOMAIN call["ext"].patches = {"a", "b", "zz"}
    /\ ret["ext"] = 2
    /\ before["ext"][1].source = "archive+api"
    /\ before["ext"][2].source = "archive:deleted"
    /\ Len(archive.items) = 2

(***************************************************************************)
(* media_extractor.py.  The recognisers (ffmpeg, Whisper, the Vision OCR)  *)
(* are outside the program: a file with content yields the texts below, a  *)
(* video a transcript and the text of its frames, an image (text,          *)
(* confidence) pairs, confidences in tenths.                               *)
(***************************************************************************)
\* dict.get(field, default)
Get(d, f, default) == IF f \in DOMAIN d THEN d[f] ELSE default

MediaOf(post) == Get(post, "media", <<>>)

\* Path(local_path).exists()
Exists(path) == path \in DOMAIN disk /\ disk[path] # "absent"

\* str.strip() and str.lower() on the texts of the model
Strip(text) ==
    IF text = "Sale " THEN "Sale"
    ELSE IF text = "HELLO  " THEN "HELLO"
    ELSE IF text = "  " THEN ""
    ELSE text

Lower(text) ==
    IF text = "Sale" THEN "sale"
    ELSE IF text = "Food" THEN "food"
    ELSE IF text \in {"Hello", "HELLO"} THEN "hello"
    ELSE IF text = "HELLO  " THEN "hello  "
    ELSE text

\* transcribe_audio: whisper_model.transcribe on no model raises, caught, ""
transcribe_audio(whisper_model, path) == IF whisper_model THEN "said" ELSE ""

\* ocr_image, lines 155-172: the pairs that pass the confidence and length filter
ocr_image(path) == <<<<"Sale ", 9>>>>

SeenPut_LastWins(seen, text, conf) ==
    LET normalized == Lower(Strip(text))
        entry == [n |-> normalized, t |-> Strip(text), c |-> conf]
    IN  IF normalized = "" THEN seen
        ELSE IF \E j \in DOMAIN seen : seen[j].n = normalized
             THEN [j \in DOMAIN seen |->
                      IF seen[j].n = normalized /\ conf >= seen[j].c
                      THEN entry ELSE seen[j]]
             ELSE Append(seen, entry)

\* the entry of seen for one more pair, lines 183-188
SeenPut(seen, text, conf) ==
    LET normalized == Lower(Strip(text))
        entry == [n |-> normalized, t |-> Strip(text), c |-> conf]
    IN  IF normalized = "" THEN seen
        ELSE IF \E j \in DOMAIN seen : seen[j].n = normalized
             THEN [j \in DOMAIN seen |->
                      IF seen[j].n = normalized /\ conf > seen[j].c
                      THEN entry ELSE seen[j]]
             ELSE Append(seen, entry)

RECURSIVE SeenOf(_, _)
SeenOf(seen, texts) ==
    IF texts = <<>> THEN seen
    ELSE SeenOf(SeenPut(seen, texts[1][1], texts[1][2]), Tail(texts))

\* lines 175-192: one text per normalized form, sorted (stably) by confidence
deduplicate_ocr_texts(texts) ==
    LET seen == SeenOf(<<>>, texts)
        rank(i) == 1 + Cardinality({j \in DOMAIN seen :
                          seen[j].c > seen[i].c \/ (seen[j].c = seen[i].c /\ j < i)})
    IN  [r \in DOMAIN seen |-> seen[CHOOSE i \in DOMAIN seen : rank(i) = r].t]

\* process_video, lines 195-241, on a file that exists
process_video(path, whisper_model) ==
    [audio_transcript |-> transcribe_audio(whisper_model, path),
     ocr_texts |-> deduplicate_ocr_texts(<<<<"sale", 8>>, <<"sale", 8>>>>)]

\* mutant: records that have extracted_text are not skipped
has_extracted_No(post) == FALSE

\* line 273: post.get("extracted_text"); the dicts stored there are never empty
has_extracted(post) == "extracted_text" \in DOMAIN post

\* line 277: any(m.get("local_path") for m in post.get("media", []))
has_local(post) ==
    \E i \in DOMAIN MediaOf(post) : Truthy(Get(MediaOf(post)[i], "local_path", None))

\* lines 282-285; no collection name of the model is part of another one
in_collection(post, collection) ==
    \/ ~Truthy(collection)
    \/ \E i \in DOMAIN Get(post, "collections", <<>>) :
           Lower(collection) = Lower(post.collections[i])

RECURSIVE Candidates(_, _, _, _, _)
Candidates(posts, i, collection, limit, candidates) ==
    IF i > Len(posts) THEN candidates
    ELSE IF \/ has_extracted(posts[i])
            \/ ~has_local(posts[i])
            \/ ~in_collection(posts[i], collection)
         THEN Candidates(posts, i + 1, collection, limit, candidates)
         ELSE IF limit # NoLimit /\ Len(candidates) + 1 >= limit
              THEN Append(candidates, posts[i])
              ELSE Candidates(posts, i + 1, collection, limit,
                              Append(candidates, posts[i]))

\* lines 258-291, on the list read from the archive
get_extractable_posts(posts, collection, limit) ==
    Candidates(posts, 1, collection, limit, <<>>)

\* lines 319-323
RECURSIVE n_videos(_)
n_videos(candidates) ==
    IF candidates = <<>> THEN 0
    ELSE Cardinality({j \in DOMAIN MediaOf(Head(candidates)) :
             /\ Get(MediaOf(Head(candidates))[j], "media_type", None) = "video"
             /\ Truthy(Get(MediaOf(Head(candidates))[j], "local_path", None))})
         + n_videos(Tail(candidates))

\* lines 370-394: the loop over the media of one candidate; invoked says that
\* Whisper or OCR ran (process_video runs OCR on the frames whatever the flags)
NoMedia == [audio_transcripts |-> <<>>, post_ocr_all |-> <<>>, invoked |-> FALSE]

RECURSIVE MediaLoop(_, _, _, _)
MediaLoop(media, opts, whisper_model, acc) ==
    IF media = <<>> THEN acc
    ELSE LET m == Head(media)
             local_path == Get(m, "local_path", None)
             media_type == Get(m, "media_type", None)
             vid_result == process_video(local_path, whisper_model)
         IN  IF ~Truthy(local_path) \/ ~Exists(local_path)
             THEN MediaLoop(Tail(media), opts, whisper_model, acc)
             ELSE IF media_type = "video"
             THEN MediaLoop(Tail(media), opts, whisper_model,
                    [audio_transcripts |->
                        IF vid_result.audio_transcript # "" /\ ~opts.skip_whisper
                        THEN Append(acc.audio_transcripts, vid_result.audio_transcript)
                        ELSE acc.audio_transcripts,
                     post_ocr_all |->
                        IF ~opts.skip_ocr
                        THEN acc.post_ocr_all \o
                             [i \in DOMAIN vid_result.ocr_texts |->
                                 <<vid_result.ocr_texts[i], 10>>]
                        ELSE acc.post_ocr_all,
                     invoked |-> TRUE])
             ELSE IF media_type = "image" /\ ~opts.skip_ocr
             THEN MediaLoop(Tail(media), opts, whisper_model,
                    [acc EXCEPT !.post_ocr_all = @ \o ocr_image(local_path),
                                !.invoked = TRUE])
             ELSE MediaLoop(Tail(media), opts, whisper_model, acc)

\* lines 400-403
extraction_status(opts, nv) ==
    IF opts.skip_ocr THEN "partial:no_ocr"
    ELSE IF opts.skip_whisper /\ nv > 0 THEN "partial:no_audio"
    ELSE "complete"

\* lines 361-403: the extraction of one candidate, stamped with the run's clock
Extraction(candidate, opts, whisper_model, nv, now) ==
    LET r == MediaLoop(MediaOf(candidate), opts, whisper_model, NoMedia)
    IN  [audio_transcripts |-> r.audio_transcripts,
         ocr_texts |-> deduplicate_ocr_texts(r.post_ocr_all),
         extracted_at |-> now,
         extraction_status |-> extraction_status(opts, nv)]

\* some media item of the post has a local_path whose file is on disk
HasLocalFile(post) ==
    \E i \in DOMAIN MediaOf(post) :
        /\ Truthy(Get(MediaOf(post)[i], "local_path", None))
        /\ Exists(Get(MediaOf(post)[i], "local_path", None))

IdsOf(posts, Test(_)) == {KeyOf(posts[i]) : i \in {j \in DOMAIN posts : Test(posts[j])}}

\* the arguments of a run: --collection, --limit, --save-every, --skip-*
ExtOpts ==
    {opts \in [collection : {None, "food"}, limit : {NoLimit, 1}, save_every : {1, 2},
                skip_whisper : BOOLEAN, skip_ocr : BOOLEAN] :
        ~(opts.skip_whisper /\ opts.skip_ocr)}

\* run_extraction, lines 310-356: the candidates of the run, the model load
ExtStart(Opts) ==
    /\ ext.at \in {"start", "end"}
    /\ ext.run < MaxRuns
    /\ pc["ext"] = "idle"
    /\ \E opts \in Opts :
         LET posts == ReadFile(archive)
             candidates == get_extractable_posts(posts, opts.collection, opts.limit)
             nv == n_videos(candidates)
             LacksText(post) == "extracted_text" \notin DOMAIN post
             HasText(post) == "extracted_text" \in DOMAIN post
             Eligible(post) ==
                 LacksText(post) /\ has_local(post) /\ in_collection(post, opts.collection)
             over == ReadFails(archive) \/ candidates = <<>>
         IN  ext' = [ExtFresh EXCEPT
                 !.run = ext.run + 1, !.opts = opts,
                 !.candidates = IF ReadFails(archive) THEN <<>> ELSE candidates,
                 !.n_videos = nv,
                 !.whisper_model = ~opts.skip_whisper /\ nv > 0,
                 !.at = IF over THEN "end" ELSE "loop",
                 !.had = IdsOf(posts, HasText),
                 !.elig = IdsOf(posts, Eligible),
                 !.blind = ext.blind,
                 !.prev = ext.last, !.prevOpts = ext.lastOpts,
                 !.last = IF ReadFails(archive) THEN "failed"
                          ELSE IF over THEN "completed" ELSE ext.last,
                 !.lastOpts = IF over THEN opts ELSE ext.lastOpts]
    /\ UNCHANGED <<storeVars, disk, enr, dl, boot, tracker, utilVars>>

\* lines 358-418: one candidate; at a save boundary the call of patch_items
ExtProcess ==
    /\ ext.at = "loop"
    /\ pc["ext"] = "idle"
    /\ LET candidate == ext.candidates[ext.ci + 1]
           post_id == candidate.id
           r == MediaLoop(MediaOf(candidate), ext.opts, ext.whisper_model, NoMedia)
           extraction == Extraction(candidate, ext.opts, ext.whisper_model,
                                    ext.n_videos, ext.run)
           pending_patches ==
               Put(ext.pending_patches, post_id, [extracted_text |-> extraction])
           processed == ext.processed + 1
           save == \/ processed % ext.opts.save_every = 0
                   \/ ext.ci = Len(ext.candidates) - 1
       IN  /\ ext' = [ext EXCEPT
                  !.pending_patches = pending_patches,
                  !.processed = processed,
                  !.at = IF save THEN "saving" ELSE "loop",
                  !.ci = IF save THEN @ ELSE @ + 1,
                  !.took = @ \cup {post_id},
                  !.invoked = IF r.invoked THEN @ \cup {post_id} ELSE @,
                  !.blind = IF HasLocalFile(candidate) THEN @ ELSE @ \cup {post_id},
                  !.sent = IF save THEN @ \cup DOMAIN pending_patches ELSE @]
           /\ IF save
              THEN StartPatch("ext", pending_patches)
              ELSE UNCHANGED storeVars
    /\ UNCHANGED <<disk, enr, dl, boot, tracker, utilVars>>

\* lines 417-418 and 429-447: patch_items has returned (or raised)
ExtSaved ==
    /\ ext.at = "saving"
    /\ pc["ext"] = "idle"
    /\ ext' = IF failed["ext"]
              THEN [ext EXCEPT !.at = "end", !.last = "failed", !.lastOpts = ext.opts]
              ELSE IF ext.ci = Len(ext.candidates) - 1
              THEN [ext EXCEPT !.pending_patches = EmptyDict, !.at = "end",
                               !.last = "completed", !.lastOpts = ext.opts]
              ELSE [ext EXCEPT !.pending_patches = EmptyDict, !.at = "loop",
                               !.ci = @ + 1]
    /\ UNCHANGED <<storeVars, disk, enr, dl, boot, tracker, utilVars>>

\* the Extractor is killed in its loop or inside patch_items: its memory is
\* gone, the kernel drops its lock, its temp file stays
ExtKill ==
    /\ ext.at \in {"loop", "saving"}
    /\ ext' = [ExtFresh EXCEPT !.run = ext.run, !.blind = ext.blind,
                               !.last = "killed", !.lastOpts = ext.opts]
    /\ pc' = [pc EXCEPT !["ext"] = "idle"]
    /\ lock' = IF lock = "ext" THEN NoProc ELSE lock
    /\ loc' = [loc EXCEPT !["ext"] = <<>>]
    /\ before' = [before EXCEPT !["ext"] = <<>>]
    /\ UNCHANGED <<fs, call, ret, failed, repeat, done, disk, enr, dl, boot, tracker, utilVars>>

(***************************************************************************)
(* SpecExtract: runs of the Extractor, one after the other, some killed,   *)
(* on archives the Enricher has written.                                   *)
(***************************************************************************)
\* download_post_media, line 305: the file name of a media url of a post
MediaPath(shortcode, url) == shortcode \o "_" \o url

\* a media item as apply_results stores it, lines 382-392
MediaItem(shortcode, url, media_type, local) ==
    [url |-> url, media_type |-> media_type,
     local_path |-> IF local THEN MediaPath(shortcode, url) ELSE ""]

Enriched(shortcode, collections, media) ==
    [id |-> shortcode, source |-> "archive+api", text |-> "hi",
     collections |-> collections, media |-> media]

Extracted(post) ==
    Update(post, [extracted_text |->
        [audio_transcripts |-> <<>>, ocr_texts |-> <<"Sale">>,
         extracted_at |-> 0, extraction_status |-> "complete"]])

ExtractA ==
    LET post == Enriched("a", <<"Food">>,
                    <<MediaItem("a", "u1", "image", TRUE), MediaItem("a", "u2", "video", TRUE)>>)
    IN  {post, Extracted(post)}

ExtractB ==
    {Enriched("b", <<>>, <<MediaItem("b", "u1", "image", FALSE)>>),
     Enriched("b", <<>>, <<MediaItem("b", "u1", "image", TRUE)>>)}

\* a record the Enricher has not reached: no media field
ExtractC == [id |-> "c", source |-> "archive", text |-> ""]

\* the media directory: the files of a post are there or have been removed
ExtractDisks ==
    {[path \in {MediaPath("a", "u1"), MediaPath("a", "u2"), MediaPath("b", "u1")} |->
         IF path = MediaPath("b", "u1") THEN b ELSE a] :
     a \in {"absent", "full"}, b \in {"absent", "full"}}

InitExtract ==
    /\ InitStore({FullFile(<<a, b, ExtractC>>) : a \in ExtractA, b \in ExtractB})
    /\ disk \in ExtractDisks
    /\ ext = ExtFresh
    /\ enr = EnrFresh
    /\ dl = DlFresh
    /\ boot = BootFresh
    /\ tracker = NoCursors
    /\ rt = RetryFresh
    /\ codec = RestFresh
    /\ ocr = OcrFresh
    /\ loop = LoopFresh
    /\ saves = SavesFresh

NextExtract ==
    \/ ExtStart(ExtOpts)
    \/ ExtProcess
    \/ ExtSaved
    \/ ExtKill
    \/ \E p \in {"ext"} : PLock(p) \/ SRead(p) \/ WCreate(p) \/ WDump(p) \/ WMove(p) \/ PUnlock(p)

SpecExtract == InitExtract /\ [][NextExtract]_vars

(***************************************************************************)
(* Properties of the Extractor's runs, checked on SpecExtract.             *)
(***************************************************************************)
\* the run that is under way or was the last to end has come to its end
RunCompleted == ext.at = "end" /\ ext.last = "completed"

\* no record that had extracted_text at the run's read is processed, gets a
\* Whisper or OCR invocation, or is handed to patch_items by the run
SkipsExtracted == ext.had \cap (ext.took \cup ext.invoked \cup ext.sent) = {}

Min(x, y) == IF x <= y THEN x ELSE y

\* C9 (as stated): a record with extracted_text at the start of a run is
\* neither processed nor patched by it; a run started after a killed run
\* processes exactly the eligible records that lack extracted_text; a run
\* with the arguments of a completed run, on the archive that run left,
\* invokes Whisper/OCR for no record.
C9_SkipsExtractedAndResumes ==
    /\ SkipsExtracted
    /\ (RunCompleted /\ ext.prev = "killed") => ext.took = ext.elig
    /\ (ext.prev = "completed" /\ ext.prevOpts = ext.opts) => ext.invoked = {}

\* C9 (amended): as above, but the run after a kill processes the eligible
\* records without extracted_text only up to its --limit, and the run after
\* a completed run is free of Whisper/OCR invocations when the completed run
\* had the same --collection and no --limit.
C9_SkipsExtractedAndResumesUpToLimit ==
    /\ SkipsExtracted
    /\ (RunCompleted /\ ext.prev = "killed") =>
           /\ ext.took \subseteq ext.elig
           /\ ext.opts.limit = NoLimit => ext.took = ext.elig
           /\ ext.opts.limit # NoLimit =>
                  Cardinality(ext.took) = Min(ext.opts.limit, Cardinality(ext.elig))
    /\ ( /\ ext.prev = "completed"
         /\ ext.prevOpts.collection = ext.opts.collection
         /\ ext.prevOpts.limit = NoLimit )
       => ext.invoked = {}

\* a run that followed a killed run has completed: it processed a record and
\* skipped one the killed run had patched
C9_Witness ==
    /\ RunCompleted
    /\ ext.prev = "killed"
    /\ ext.took # {}
    /\ ext.had \cap DOMAIN done["ext"] # {}

\* C10: the Extractor has written extracted_text only for records that had,
\* when they were processed, a media local_path whose file existed.
C10_ExtractedOnlyWithLocalFile == ext.blind \cap DOMAIN done["ext"] = {}

(***************************************************************************)
(* browser_enricher.py.  A fetch result keeps the fields the patches are   *)
(* built from (shortcode, status, message, username, full_name, caption,   *)
(* media); the counts and the timestamps a result also carries go the same *)
(* way as the caption.  Instagram and the CDN are outside the program: an  *)
(* endpoint answers a fetch with any of Replies, a download has any of     *)
(* DownloadOutcomes.                                                       *)
(***************************************************************************)
Result(shortcode, status, caption, media) ==
    [shortcode |-> shortcode, status |-> status, caption |-> caption, media |-> media]

\* _item_to_result, lines 138-158: an item with a user
OkResult(shortcode, caption, media) ==
    Update(Result(shortcode, "ok", caption, media), [username |-> "u", full_name |-> "U"])

\* lines 171, 178, 192, 215, 226: an error result with a message
ErrorResult(shortcode, message) ==
    Update(Result(shortcode, "error", "", <<>>), [message |-> message])

\* lines 161-235: what fetch_post_rest and _fetch_post_graphql return
FetchResults(shortcode) ==
    {OkResult(shortcode, "cap", <<[url |-> "u1", type |-> "image"]>>),
     OkResult(shortcode, "", <<>>),
     Result(shortcode, "not_found", "", <<>>),
     Result(shortcode, "rate_limited", "", <<>>),
     Result(shortcode, "error", "", <<>>),
     ErrorResult(shortcode, "invalid json")}

\* a reply whose JSON is not of the expected shape ("user": null, a list at
\* the top): _item_to_result (line 144-150) or data.get (lines 194, 228)
\* raises, and no except clause of the fetch catches it
Malformed(shortcode) == [shortcode |-> shortcode, status |-> "raised"]

Replies(shortcode) == FetchResults(shortcode) \cup {Malformed(shortcode)}

\* the kind of a reply: its status, or "invalid json" for a body that is not JSON
Kind(reply) ==
    IF Get(reply, "message", None) = "invalid json" THEN "invalid json" ELSE reply.status

\* mutant: every GraphQL result but ok goes on to REST
Conclusive_OnlyOk(result) == result.status = "ok"

\* line 256: the GraphQL result is not the checkpoint page
Conclusive(result) ==
    result.status # "error" \/ Get(result, "message", None) # "invalid json"

\* mutant: a checkpoint page leaves the flag as it is
StillAvailable_Always(result) == TRUE

\* lines 256-261: _graphql_available after a GraphQL result
StillAvailable(result) == Conclusive(result)

\* fetch_post_by_shortcode, lines 243-263, with the replies the two endpoints
\* would give: the result (status "raised" for an exception), the flag after
\* the call and the requests made
fetch_post_by_shortcode(graphql_available, graphql, rest) ==
    IF graphql_available /\ Conclusive(graphql)
    THEN [result |-> graphql, graphql_available |-> TRUE, requests |-> <<"graphql">>]
    ELSE [result |-> rest,
          graphql_available |-> graphql_available /\ StillAvailable(graphql),
          requests |-> IF graphql_available THEN <<"checkpoint", "rest">>
                       ELSE <<"rest">>]

\* the replies of the two endpoints to one fetch, of the kinds in Statuses;
\* the reply of an endpoint that is not asked is not a choice
FetchReplies(graphql_available, shortcode, Statuses) ==
    {f \in [graphql : Replies(shortcode), rest : Replies(shortcode)] :
        /\ Kind(f.graphql) \in Statuses
        /\ Kind(f.rest) \in Statuses
        /\ ~graphql_available => f.graphql = f.rest
        /\ (graphql_available /\ Kind(f.graphql) # "invalid json") => f.rest = f.graphql}

\* requests.get of a media url: content, empty content, or an exception
DownloadOutcomes == {"full", "empty", "failed"}

\* download_post_media, lines 280-324, on the media directory d; every
\* request of the call has the outcome got; a file is full (the whole
\* content), partial (some of it, size > 0) or empty
RECURSIVE download_post_media(_, _, _, _)
download_post_media(shortcode, media_list, got, d) ==
    IF media_list = <<>> THEN [updated |-> <<>>, disk |-> d]
    ELSE LET m == Head(media_list)
             url == Get(m, "url", "")
             filepath == MediaPath(shortcode, url)
             downloaded == filepath \in DOMAIN d /\ d[filepath] \in {"full", "partial"}
             one == IF url = "" \/ (~downloaded /\ got = "failed")
                    THEN [m |-> m, disk |-> d]
                    ELSE [m |-> Put(m, "local_path", filepath),
                          disk |-> IF downloaded THEN d ELSE Put(d, filepath, got)]
             rest == download_post_media(shortcode, Tail(media_list), got, one.disk)
         IN  [updated |-> <<one.m>> \o rest.updated, disk |-> rest.disk]

\* lines 327-349
RECURSIVE Pending(_, _, _, _, _)
Pending(posts, n, limit, collection, pending) ==
    IF n > Len(posts) THEN pending
    ELSE IF /\ Get(posts[n], "source", None) = "archive"
            /\ ~Truthy(Get(posts[n], "text", None))
            /\ in_collection(posts[n], collection)
         THEN IF limit # NoLimit /\ Len(pending) + 1 >= limit
              THEN Append(pending, posts[n].id)
              ELSE Pending(posts, n + 1, limit, collection, Append(pending, posts[n].id))
         ELSE Pending(posts, n + 1, limit, collection, pending)

get_pending_shortcodes(posts, limit, collection) ==
    Pending(posts, 1, limit, collection, <<>>)

\* lines 382-392 (also 705-715): a media item as it is stored
StoredMedia(media) ==
    [n \in DOMAIN media |->
        [url |-> Get(media[n], "url", ""),
         media_type |-> Get(media[n], "type", "image"),
         local_path |-> Get(media[n], "local_path", "")]]

\* mutant: the caption is stored as it is
TextOf_Raw(result) == Get(result, "caption", "")

\* line 372: result.get("caption") or "[No caption]"
TextOf(result) ==
    IF Truthy(Get(result, "caption", None)) THEN result.caption ELSE "[No caption]"

\* lines 373-377
AuthorOf(result) ==
    [username |-> Get(result, "username", ""),
     display_name |-> Get(result, "full_name", ""),
     profile_url |-> "https://www.instagram.com/" \o Get(result, "username", "") \o "/"]

\* apply_results, lines 370-414: the patch of one result
ResultPatch(result) ==
    IF result.status = "ok"
    THEN LET patch == [text |-> TextOf(result),
                       author |-> AuthorOf(result),
                       source |-> "archive+api"]
         IN  IF Get(result, "media", <<>>) # <<>>
             THEN Update(patch, [media |-> StoredMedia(result.media)])
             ELSE patch
    ELSE [source |-> "archive:deleted", text |-> "[Post no longer available]"]

\* mutant: every result is patched
Patched_All(result) == TRUE

\* lines 370, 410, 417: the results that make a patch
Patched(result) == result.status \in {"ok", "not_found"}

\* apply_results, lines 365-418: the patches of a batch of results
RECURSIVE ResultPatches(_, _)
ResultPatches(results, patches) ==
    IF results = <<>> THEN patches
    ELSE ResultPatches(Tail(results),
            IF Patched(Head(results))
            THEN Put(patches, Head(results).shortcode, ResultPatch(Head(results)))
            ELSE patches)

\* apply_results, lines 362-418 and 434-439: the counts of a batch
ResultCounts(results) ==
    LET N(Test(_)) == Cardinality({n \in DOMAIN results : Test(results[n])})
        Ok(r) == r.status = "ok"
        Gone(r) == r.status = "not_found"
        Other(r) == r.status \notin {"ok", "not_found"}
    IN  [enriched |-> N(Ok), deleted |-> N(Gone), failed |-> N(Other)]

\* SyncTracker.get, sync_tracker.py lines 22-28: the cursor of the file, or a
\* blank one (sync_state.py lines 18-25)
BlankCursor == [last_sync_status |-> "", total_items |-> 0, error_message |-> ""]

TrackerGet(cursors, key) == IF key \in DOMAIN cursors THEN cursors[key] ELSE BlankCursor

\* SyncCursor.mark_success, sync_state.py lines 31-39
mark_success(cursor, total_items) ==
    [cursor EXCEPT !.last_sync_status = "success", !.total_items = total_items,
                   !.error_message = ""]

\* SyncTracker.save, sync_tracker.py lines 30-42
TrackerSave(cursors, key, cursor) == Put(cursors, key, cursor)

\* lines 499-502
COOLDOWN_EVERY == 600

MAX_CONSECUTIVE_FAILURES == 10

\* lines 549-552
needs_cooldown(i, consecutive_failures) ==
    \/ (i + 1) % COOLDOWN_EVERY = 0
    \/ consecutive_failures >= MAX_CONSECUTIVE_FAILURES

\* the arguments of an Enricher run: --limit, --collection, --save-every,
\* --no-media
EnrOpts ==
    {[EnrDefaults EXCEPT !.save_every = n, !.download_media = m] :
        n \in {1, 2}, m \in BOOLEAN}

\* line 465: the shortcode of the auth test
TestShortcode == "DUGZG3CjcN-"

\* the requests of one fetch, as they are kept in the history of a run
Requested(shortcode, requests) == [n \in DOMAIN requests |-> <<shortcode, requests[n]>>]

\* run_enrichment, lines 458-477: the flag is set, the auth test is fetched
\* (an error result exits), the pending shortcodes are read
EnrStart(Opts, Tests) ==
    /\ enr.at \in {"start", "end"}
    /\ enr.run < MaxRuns
    /\ pc["enr"] = "idle"
    /\ \E opts \in Opts, t \in FetchReplies(TRUE, TestShortcode, Tests) :
         LET test == fetch_post_by_shortcode(TRUE, t.graphql, t.rest)
             posts == ReadFile(archive)
             pending == get_pending_shortcodes(posts, opts.limit, opts.collection)
             stop == test.result.status \in {"error", "raised"}
             over == stop \/ ReadFails(archive) \/ pending = <<>>
         IN  enr' = [EnrFresh EXCEPT
                 !.run = enr.run + 1, !.opts = opts,
                 !.graphql_available = test.graphql_available,
                 !.requests = Requested(TestShortcode, test.requests),
                 !.pending = IF over THEN <<>> ELSE pending,
                 !.seen = IF over THEN <<>> ELSE posts,
                 !.past = DOMAIN done["enr"],
                 !.raised = \/ test.result.status = "raised"
                            \/ ~stop /\ ReadFails(archive),
                 !.at = IF over THEN "end" ELSE "loop"]
    /\ UNCHANGED <<storeVars, disk, ext, dl, boot, tracker, utilVars>>

\* lines 512-573: one fetch, its download (folded into the batch as the drain
\* at the save boundary does), and at a save boundary apply_results (its
\* patches and its counts) up to its call of patch_items; an exception of
\* the fetch ends run_enrichment
EnrFetch(Statuses, Outcomes) ==
    /\ enr.at = "loop"
    /\ pc["enr"] = "idle"
    /\ \E f \in FetchReplies(enr.graphql_available, enr.pending[enr.i + 1], Statuses),
          got \in Outcomes \cup {"failed"} :
         LET shortcode == enr.pending[enr.i + 1]
             fetch == fetch_post_by_shortcode(enr.graphql_available, f.graphql, f.rest)
             result == fetch.result
             raised == result.status = "raised"
             submit == /\ enr.opts.download_media
                       /\ result.status = "ok"
                       /\ result.media # <<>>
             down == download_post_media(shortcode, result.media, got, disk)
             results_batch ==
                 Append(enr.results_batch,
                        IF submit THEN [result EXCEPT !.media = down.updated]
                        ELSE result)
             pending_futures ==
                 IF submit THEN Append(enr.pending_futures, Len(results_batch) - 1)
                 ELSE enr.pending_futures
             rate_limited == enr.rate_limited \/ result.status = "rate_limited"
             consecutive_failures ==
                 IF result.status \in {"ok", "not_found"} THEN 0
                 ELSE enr.consecutive_failures + 1
             cooldown == needs_cooldown(enr.i, consecutive_failures)
             save == \/ (enr.i + 1) % enr.opts.save_every = 0
                     \/ enr.i = Len(enr.pending) - 1
                     \/ rate_limited
                     \/ cooldown
             asked == [enr EXCEPT !.graphql_available = fetch.graphql_available,
                                  !.requests = @ \o Requested(shortcode, fetch.requests),
                                  !.fetched = @ \cup {shortcode}]
         IN  /\ IF submit THEN got \in Outcomes ELSE got = "failed"
             /\ disk' = IF submit THEN down.disk ELSE disk
             /\ enr' = IF raised
                       THEN [asked EXCEPT !.at = "end", !.raised = TRUE,
                                          !.results_batch = <<>>]
                       ELSE [asked EXCEPT
                                !.results_batch = results_batch,
                                !.pending_futures = IF save THEN <<>> ELSE pending_futures,
                                !.results = Append(@, results_batch[Len(results_batch)]),
                                !.handed = IF save THEN @ \o results_batch ELSE @,
                                !.rate_limited = rate_limited,
                                !.consecutive_failures = consecutive_failures,
                                !.needs_cooldown = cooldown,
                                !.refused = IF Patched(result) THEN @
                                            ELSE @ \cup {shortcode},
                                !.counts = IF save THEN ResultCounts(results_batch)
                                           ELSE @,
                                !.at = IF save THEN "saving" ELSE "loop",
                                !.i = IF save THEN @ ELSE @ + 1]
             /\ IF save /\ ~raised
                THEN StartPatch("enr", ResultPatches(results_batch, EmptyDict))
                ELSE UNCHANGED storeVars
    /\ UNCHANGED <<ext, dl, boot, tracker, utilVars>>

\* lines 420-439 and 573-620: patch_items has returned (an exception of it
\* ends run_enrichment); the enrichment cursor is saved and the counts are
\* returned; the batch is emptied; after a rate limit or at a cooldown the
\* cookies are read again, and the loop ends if that fails
EnrSaved ==
    /\ enr.at = "saving"
    /\ pc["enr"] = "idle"
    /\ \E refreshed \in BOOLEAN :
         LET pause == enr.rate_limited \/ enr.needs_cooldown
             more == enr.i < Len(enr.pending) - 1
             key == "instagram:enrichment"
             cursor == mark_success(TrackerGet(tracker, key), enr.counts.enriched)
             applied == [enr EXCEPT !.marks = Append(@, <<key, cursor.last_sync_status>>),
                                    !.results_batch = <<>>]
         IN  /\ pause \/ refreshed
             /\ failed["enr"] => refreshed
             /\ enr' = IF failed["enr"]
                       THEN [enr EXCEPT !.at = "end", !.raised = TRUE]
                       ELSE IF ~refreshed
                       THEN [applied EXCEPT !.at = "end", !.broke = TRUE]
                       ELSE [applied EXCEPT
                                !.rate_limited = FALSE,
                                !.consecutive_failures = IF pause THEN 0 ELSE @,
                                !.at = IF more THEN "loop" ELSE "end",
                                !.i = IF more THEN @ + 1 ELSE @]
             /\ tracker' = IF failed["enr"] THEN tracker
                           ELSE TrackerSave(tracker, key, cursor)
    /\ UNCHANGED <<storeVars, disk, ext, dl, boot, utilVars>>

\* run_media_download, line 728: the download-media mode saves every 25 posts
DL_SAVE_EVERY == 25

\* lines 660-666: an enriched post with a media url and no local_path
needs_download(post) ==
    /\ Get(post, "source", None) = "archive+api"
    /\ \E n \in DOMAIN MediaOf(post) :
           /\ Truthy(Get(MediaOf(post)[n], "url", None))
           /\ ~Truthy(Get(MediaOf(post)[n], "local_path", None))

\* run_media_download, lines 656-683: the whole archive is read into posts
DlStart(Limits) ==
    /\ dl.at = "start"
    /\ pc["dl"] = "idle"
    /\ \E limit \in Limits :
         LET posts == ReadFile(archive)
             all == SelectSeq(posts, needs_download)
             needs_media == IF limit # NoLimit THEN SubSeq(all, 1, Min(limit, Len(all)))
                            ELSE all
             over == ReadFails(archive) \/ needs_media = <<>>
         IN  dl' = [DlFresh EXCEPT !.limit = limit,
                                   !.posts = IF over THEN <<>> ELSE posts,
                                   !.needs_media = IF over THEN <<>> ELSE needs_media,
                                   !.at = IF over THEN "end" ELSE "loop"]
    /\ UNCHANGED <<storeVars, disk, ext, enr, boot, tracker, utilVars>>

\* lines 685-733: one post: fetch, download, posts[idx]["media"], and on
\* every 25th and on the last post store.write(posts); an exception of the
\* fetch ends run_media_download
DlFetch(Statuses, Outcomes) ==
    /\ dl.at = "loop"
    /\ pc["dl"] = "idle"
    /\ \E f \in FetchReplies(dl.graphql_available, dl.needs_media[dl.i + 1].id, Statuses),
          got \in Outcomes \cup {"failed"} :
         LET shortcode == dl.needs_media[dl.i + 1].id
             fetch == fetch_post_by_shortcode(dl.graphql_available, f.graphql, f.rest)
             result == fetch.result
             raised == result.status = "raised"
             skip == result.status # "ok" \/ result.media = <<>>
             down == download_post_media(shortcode, result.media, got, disk)
             sc_to_idx == key_to_idx(dl.posts)
             posts == IF shortcode \in DOMAIN sc_to_idx
                      THEN [dl.posts EXCEPT ![sc_to_idx[shortcode]] =
                               Put(@, "media", StoredMedia(down.updated))]
                      ELSE dl.posts
             last == dl.i = Len(dl.needs_media) - 1
             save == ~skip /\ ((dl.i + 1) % DL_SAVE_EVERY = 0 \/ last)
         IN  /\ IF skip THEN got = "failed" ELSE got \in Outcomes
             /\ disk' = IF skip THEN disk ELSE down.disk
             /\ dl' = IF raised
                      THEN [dl EXCEPT !.at = "end", !.posts = <<>>, !.needs_media = <<>>]
                      ELSE [dl EXCEPT !.graphql_available = fetch.graphql_available,
                                      !.posts = IF skip THEN @ ELSE posts,
                                      !.at = IF save THEN "saving"
                                             ELSE IF last THEN "final" ELSE "loop",
                                      !.i = IF save \/ last THEN @ ELSE @ + 1]
             /\ IF save
                THEN StartWrite("dl", posts)
                ELSE UNCHANGED storeVars
    /\ UNCHANGED <<ext, enr, boot, tracker, utilVars>>

\* lines 729-733: store.write(posts) has returned (or raised)
DlSaved ==
    /\ dl.at = "saving"
    /\ pc["dl"] = "idle"
    /\ dl' = IF failed["dl"] THEN [dl EXCEPT !.at = "end"]
             ELSE IF dl.i < Len(dl.needs_media) - 1
             THEN [dl EXCEPT !.at = "loop", !.i = @ + 1]
             ELSE [dl EXCEPT !.at = "final"]
    /\ UNCHANGED <<storeVars, disk, ext, enr, boot, tracker, utilVars>>

\* line 735: after the loop, store.write(posts) once more
DlFinal ==
    /\ dl.at = "final"
    /\ pc["dl"] = "idle"
    /\ dl' = [dl EXCEPT !.at = "finishing"]
    /\ StartWrite("dl", dl.posts)
    /\ UNCHANGED <<disk, ext, enr, boot, tracker, utilVars>>

\* lines 736-741: the summary
DlDone ==
    /\ dl.at = "finishing"
    /\ pc["dl"] = "idle"
    /\ dl' = [dl EXCEPT !.at = "end", !.posts = <<>>, !.needs_media = <<>>]
    /\ UNCHANGED <<storeVars, disk, ext, enr, boot, tracker, utilVars>>

(***************************************************************************)
(* api_bootstrap.py: run_sync.  The saved feed is outside the program:     *)
(* fetch_saved_posts returns any of Feeds, posts in the stored format.     *)
(***************************************************************************)
\* _api_item_to_post, lines 158-180
ApiPost(shortcode) ==
    [id |-> shortcode, source |-> "archive+api", text |-> "cap", collections |-> <<>>,
     media |-> <<[url |-> "u1", media_type |-> "image", local_path |-> ""]>>]

Feeds == {<<>>, <<ApiPost("a")>>, <<ApiPost("a"), ApiPost("d")>>}

\* run_sync, lines 339-344: the media list handed to download_post_media
ToDownload(media) ==
    LET with_url == SelectSeq(media, LAMBDA m : Truthy(Get(m, "url", None)))
    IN  [n \in DOMAIN with_url |-> [url |-> with_url[n].url, type |-> with_url[n].media_type]]

\* lines 326-375: the downloads of the new posts, one after the other
RECURSIVE SyncMedia(_, _, _)
SyncMedia(new_posts, got, d) ==
    IF new_posts = <<>> THEN [posts |-> <<>>, disk |-> d]
    ELSE LET post == Head(new_posts)
             down == download_post_media(post.id, ToDownload(MediaOf(post)), got, d)
             one == IF MediaOf(post) # <<>>
                    THEN [post |-> Put(post, "media", StoredMedia(down.updated)),
                          disk |-> down.disk]
                    ELSE [post |-> post, disk |-> d]
             rest == SyncMedia(Tail(new_posts), got, one.disk)
         IN  [posts |-> <<one.post>> \o rest.posts, disk |-> rest.disk]

\* lines 271-296: the collections, and the ids of the posts in the store;
\* last says how the run ended: exited (no collections, line 281), raised,
\* nothing fetched (line 314), nothing new (line 323) or appended
BootStart ==
    /\ boot.at = "start"
    /\ pc["boot"] = "idle"
    /\ \E collections \in BOOLEAN :
         boot' = IF ~collections \/ ReadFails(archive)
                 THEN [BootFresh EXCEPT !.at = "end", !.last = "exited"]
                 ELSE [BootFresh EXCEPT !.at = "feed",
                           !.existing = ReadFile(archive),
                           !.existing_ids = {KeyOf(ReadFile(archive)[n]) :
                                                n \in DOMAIN ReadFile(archive)}]
    /\ UNCHANGED <<storeVars, disk, ext, enr, dl, tracker, utilVars>>

\* lines 298-379: the feed, the new posts, their media, store.append(new_posts)
BootFeed(FeedSet, Outcomes) ==
    /\ boot.at = "feed"
    /\ pc["boot"] = "idle"
    /\ \E api_posts \in FeedSet, download_media \in BOOLEAN, got \in Outcomes \cup {"failed"} :
         LET new_posts == SelectSeq(api_posts, LAMBDA p : p.id \notin boot.existing_ids)
             synced == SyncMedia(new_posts, got, disk)
             downloads == download_media /\ new_posts # <<>>
         IN  /\ IF downloads THEN got \in Outcomes ELSE got = "failed"
             /\ disk' = IF downloads THEN synced.disk ELSE disk
             /\ IF new_posts = <<>>
                THEN /\ boot' = [boot EXCEPT !.at = "end",
                                     !.last = IF api_posts = <<>> THEN "nothing fetched"
                                              ELSE "nothing new"]
                     /\ UNCHANGED storeVars
                ELSE /\ boot' = [boot EXCEPT !.at = "appending",
                             !.new_posts = IF downloads THEN synced.posts ELSE new_posts]
                     /\ StartAppend("boot",
                                    IF downloads THEN synced.posts ELSE new_posts,
                                    NoMerge)
    /\ UNCHANGED <<ext, enr, dl, tracker, utilVars>>

\* lines 379-386: append has returned (or raised); the saved cursor gets the
\* number of records of the store
BootDone ==
    /\ boot.at = "appending"
    /\ pc["boot"] = "idle"
    /\ boot' = [boot EXCEPT !.at = "end", !.new_posts = <<>>,
                    !.last = IF failed["boot"] \/ ReadFails(archive) THEN "raised"
                             ELSE "appended"]
    /\ tracker' = IF failed["boot"] \/ ReadFails(archive) THEN tracker
                  ELSE TrackerSave(tracker, "instagram:saved",
                           mark_success(TrackerGet(tracker, "instagram:saved"),
                                        Len(ReadFile(archive))))
    /\ UNCHANGED <<storeVars, disk, ext, enr, dl, utilVars>>

(***************************************************************************)
(* SpecPipes: the Enricher's run loop, its download-media mode and the     *)
(* Extractor run at the same time on one archive: a record waiting for     *)
(* enrichment, an enriched one whose media was not downloaded, an enriched *)
(* one with its image on disk.                                             *)
(***************************************************************************)
PipesArchive ==
    <<[id |-> "a", source |-> "archive", text |-> ""],
      Enriched("b", <<>>, <<MediaItem("b", "u1", "image", FALSE)>>),
      Enriched("c", <<>>, <<MediaItem("c", "u1", "image", TRUE)>>)>>

InitPipes ==
    /\ InitStore({FullFile(PipesArchive)})
    /\ disk = [path \in {MediaPath("c", "u1")} |-> "full"]
    /\ ext = ExtFresh
    /\ enr = EnrFresh
    /\ dl = DlFresh
    /\ boot = BootFresh
    /\ tracker = NoCursors
    /\ rt = RetryFresh
    /\ codec = RestFresh
    /\ ocr = OcrFresh
    /\ loop = LoopFresh
    /\ saves = SavesFresh

\* the Enricher's two entry points
NextEnricher ==
    \/ enr.run = 0 /\ EnrStart({EnrDefaults}, {"ok", "error"})
    \/ EnrFetch({"ok", "not_found", "rate_limited", "error"}, DownloadOutcomes)
    \/ EnrSaved
    \/ DlStart({NoLimit, 1})
    \/ DlFetch({"ok", "error"}, DownloadOutcomes)
    \/ DlSaved
    \/ DlFinal
    \/ DlDone

NextPipes ==
    \/ NextEnricher
    \/ ext.run = 0 /\ ExtStart({NoOpts})
    \/ ExtProcess
    \/ ExtSaved
    \/ \E p \in {"enr", "dl", "ext"} :
           PLock(p) \/ SRead(p) \/ WCreate(p) \/ WDump(p) \/ WMove(p) \/ PUnlock(p) \/ SReturn(p)

SpecPipes == InitPipes /\ [][NextPipes]_vars

(***************************************************************************)
(* SpecSources: the Enricher's run loop, its download-media mode and the   *)
(* Bootstrap run at the same time on that archive.                         *)
(***************************************************************************)
NextSources ==
    \/ NextEnricher
    \/ BootStart
    \/ BootFeed(Feeds, {"full"})
    \/ BootDone
    \/ \E p \in {"enr", "dl", "boot"} :
           PLock(p) \/ SRead(p) \/ WCreate(p) \/ WDump(p) \/ WMove(p) \/ PUnlock(p) \/ SReturn(p)

SpecSources == InitPipes /\ [][NextSources]_vars

(***************************************************************************)
(* Properties of the pipelines running together.                           *)
(***************************************************************************)
\* the record with key k on disk holds the values of these fields of updates
KeepsFields(k, updates, fields) ==
    \E n \in DOMAIN archive.items :
        /\ KeyOf(archive.items[n]) = k
        /\ \A f \in fields \cap DOMAIN updates :
               f \in DOMAIN archive.items[n] /\ archive.items[n][f] = Stored(updates)[f]

\* C3: while the Enricher's run loop, its download-media mode and the
\* Extractor run on the same archive, the extracted_text the Extractor has
\* written stays on disk: no write of the Enricher puts back the copy of the
\* record it read before the Extractor's patch.
C3_NoValueLostToStaleCopy ==
    \A k \in DOMAIN done["ext"] :
        KeepsFields(k, done["ext"][k], {"extracted_text"})

Source(posts, k) ==
    LET n == CHOOSE n \in DOMAIN posts : KeyOf(posts[n]) = k
    IN  Get(posts[n], "source", None)

Keys(posts) == {KeyOf(posts[n]) : n \in DOMAIN posts}

\* C4: whatever the Enricher's run loop, the download-media mode and the
\* Bootstrap do at the same time, the source of a record on disk stays as it
\* is or goes from archive to archive+api or to archive:deleted.
C4_SourceForwardOnly ==
    [][\A k \in Keys(ReadFile(archive)) \cap Keys(ReadFile(archive')) :
          \/ Source(ReadFile(archive'), k) = Source(ReadFile(archive), k)
          \/ /\ Source(ReadFile(archive), k) = "archive"
             /\ Source(ReadFile(archive'), k) \in {"archive+api", "archive:deleted"}]_vars

(***************************************************************************)
(* SpecEnrich: the Enricher's run loop alone on an archive of records that *)
(* wait for enrichment, run after run, with every kind of reply, a         *)
(* GraphQL checkpoint at any fetch, every download outcome, a failing      *)
(* cookie refresh and a failing write of the archive.                      *)
(***************************************************************************)
EnrichArchive == <<Stub("a"), Stub("b"), Stub("c")>>

ReplyKinds == {"ok", "not_found", "rate_limited", "error", "invalid json", "raised"}

InitEnrich ==
    /\ InitStore({FullFile(EnrichArchive)})
    /\ NoPipes

NextEnrich ==
    \/ EnrStart(EnrOpts, ReplyKinds)
    \/ EnrFetch(ReplyKinds, DownloadOutcomes)
    \/ EnrSaved
    \/ PLock("enr")
    \/ SRead("enr")
    \/ WCreate("enr")
    \/ WDump("enr")
    \/ WFail("enr")
    \/ WMove("enr")
    \/ PUnlock("enr")

SpecEnrich == InitEnrich /\ [][NextEnrich]_vars

(***************************************************************************)
(* SpecRefetch: the Enricher's run loop, run after run, while its          *)
(* download-media mode works on the same archive.                          *)
(***************************************************************************)
NextRefetch ==
    \/ EnrStart({EnrDefaults}, {"ok"})
    \/ EnrFetch({"ok", "not_found"}, {"full"})
    \/ EnrSaved
    \/ DlStart({NoLimit})
    \/ DlFetch({"ok", "error"}, {"full"})
    \/ DlSaved
    \/ DlFinal
    \/ DlDone
    \/ \E p \in {"enr", "dl"} :
           PLock(p) \/ SRead(p) \/ WCreate(p) \/ WDump(p) \/ WMove(p) \/ PUnlock(p) \/ SReturn(p)

SpecRefetch == InitPipes /\ [][NextRefetch]_vars

\* lines 341 and 426: the pending predicate
IsPending(post) ==
    Get(post, "source", None) = "archive" /\ ~Truthy(Get(post, "text", None))

\* the requests of the run were all made for the auth test
OnlyTheAuthTest ==
    /\ enr.fetched = {}
    /\ \A n \in DOMAIN enr.requests : enr.requests[n][1] = TestShortcode

\* C11: a record the Enricher has patched is not pending, and no later run
\* of the Enricher fetches it; a run that finds no pending record makes no
\* request but those of the auth test.
C11_PatchedNeverFetchedAgain ==
    /\ \A n \in DOMAIN ReadFile(archive) :
           KeyOf(ReadFile(archive)[n]) \in DOMAIN done["enr"]
               => ~IsPending(ReadFile(archive)[n])
    /\ enr.fetched \cap enr.past = {}
    /\ (enr.run > 0 /\ enr.pending = <<>>) => OnlyTheAuthTest

(***************************************************************************)
(* Properties of the Enricher's run loop (checked under SpecEnrich).       *)
(***************************************************************************)
\* the results of the batch being saved whose status is error or rate_limited
Refusals ==
    {n \in DOMAIN enr.results_batch :
        enr.results_batch[n].status \in {"error", "rate_limited"}}

\* C12: a record whose fetch ended in error or rate_limited is on disk as
\* the run read it, before and after the save boundary of its batch: it is
\* in no patch handed to patch_items, and apply_results counts it as failed.
C12_FailedFetchLeavesRecord ==
    /\ \A n \in DOMAIN enr.seen :
           KeyOf(enr.seen[n]) \in enr.refused =>
               /\ n \in DOMAIN ReadFile(archive)
               /\ ReadFile(archive)[n] = enr.seen[n]
    /\ enr.at = "saving" =>
           /\ \A n \in Refusals :
                  enr.results_batch[n].shortcode \notin DOMAIN call["enr"].patches
           /\ enr.counts.failed = Cardinality(Refusals)

\* a batch of an error result and an ok result has been saved: one record
\* was patched, the other counted as failed
C12_Witness ==
    /\ enr.at = "end" /\ enr.run = 1 /\ ~enr.raised
    /\ enr.counts.failed = 1 /\ enr.counts.enriched = 1
    /\ enr.refused # {}
    /\ DOMAIN done["enr"] # {}

\* the record with key k in a list of records
RecordOf(posts, k) == posts[CHOOSE n \in DOMAIN posts : KeyOf(posts[n]) = k]

\* the record on disk shows an ok result: source, text, author and, for a
\* result with media, one stored item per fetched item with the fetched url
ShowsOk(post, result) ==
    /\ post.source = "archive+api"
    /\ post.text = IF result.caption = "" THEN "[No caption]" ELSE result.caption
    /\ post.author.username = result.username
    /\ post.author.display_name = result.full_name
    /\ post.author.profile_url = "https://www.instagram.com/" \o result.username \o "/"
    /\ result.media # <<>> =>
           /\ Len(post.media) = Len(result.media)
           /\ \A n \in DOMAIN result.media : post.media[n].url = result.media[n].url

\* the record on disk is the record the call read with source and text of a
\* not_found result, and nothing else changed
ShowsDeleted(post, old) ==
    post = Update(old, [source |-> "archive:deleted",
                        text |-> "[Post no longer available]"])

\* the fetch of this step returned not_found
NotFoundStep ==
    /\ Len(enr'.results_batch) = Len(enr.results_batch) + 1
    /\ enr'.results_batch[Len(enr'.results_batch)].status = "not_found"

Checkpoints == {n \in DOMAIN enr.requests : enr.requests[n][2] = "checkpoint"}

\* C14: in a run of the Enricher, the fetch whose GraphQL request is answered
\* with invalid JSON makes one REST request for the same shortcode next, every
\* request after it is a REST request, and _graphql_available is false from
\* that fetch on (it is true as long as no checkpoint was met).
C14_GraphqlOffAfterCheckpoint ==
    /\ \A n \in Checkpoints :
           /\ n + 1 \in DOMAIN enr.requests
           /\ enr.requests[n + 1] = <<enr.requests[n][1], "rest">>
           /\ \A m \in DOMAIN enr.requests : m > n => enr.requests[m][2] = "rest"
           /\ Cardinality({m \in DOMAIN enr.requests :
                              enr.requests[m][1] = enr.requests[n][1]}) = 2
    /\ enr.run > 0 => (enr.graphql_available <=> Checkpoints = {})

\* the first record was fetched over GraphQL, the second met the checkpoint
\* and was fetched again over REST, the third was fetched over REST only
C14_Witness ==
    /\ Len(enr.requests) = 5
    /\ enr.requests[2] = <<"a", "graphql">>
    /\ enr.requests[3] = <<"b", "checkpoint">>
    /\ enr.requests[4] = <<"b", "rest">>
    /\ enr.requests[5] = <<"c", "rest">>
    /\ ~enr.graphql_available

\* the cursor saves of the run for one key
MarksOf(key) == SelectSeq(enr.marks, LAMBDA mark : mark[1] = key)

\* the run ended without an exception, a failed cookie refresh or a failed fetch
CleanRun == ~enr.raised /\ ~enr.broke /\ enr.refused = {}

\* C15: an Enricher run that has fetched records and has ended has saved the
\* instagram:saved cursor exactly once, with status success after a clean
\* run and partial otherwise.
C15_SavedCursorOncePerRun ==
    (enr.at = "end" /\ enr.fetched # {}) =>
        /\ Len(MarksOf("instagram:saved")) = 1
        /\ MarksOf("instagram:saved")[1][2] = IF CleanRun THEN "success" ELSE "partial"

(***************************************************************************)
(* utils/retry.py: a call of a function decorated with retry().  The       *)
(* wrapped function is outside the decorator: an invocation returns a      *)
(* value, raises an exception of one of the types in exceptions, or raises *)
(* another exception.  Delays are whole seconds.                           *)
(***************************************************************************)
BaseDelays == {0, 1, 3}

MaxDelays == {2, 5, 60}

\* mutant: the delay is not capped
delay_Uncapped(attempt, base_delay, max_delay) == base_delay * 2 ^ (attempt - 1)

\* line 41: min(base_delay * (2 ** (attempt - 1)), max_delay)
delay(attempt, base_delay, max_delay) == Min(base_delay * 2 ^ (attempt - 1), max_delay)

\* mutant: the last attempt is not noticed
LastAttempt_Never(attempt, max_attempts) == FALSE

\* line 39: attempt == max_attempts
LastAttempt(attempt, max_attempts) == attempt = max_attempts

\* lines 32-34: the wrapper is called; range(1, max_attempts + 1) is empty for
\* max_attempts < 1, and line 50 then raises None, a TypeError
RetryCall ==
    /\ rt.at \in {"idle", "returned", "raised"}
    /\ \E max_attempts \in 0..MaxAttempts, base_delay \in BaseDelays,
          max_delay \in MaxDelays, on_retry \in BOOLEAN :
         rt' = [RetryFresh EXCEPT
                   !.max_attempts = max_attempts, !.base_delay = base_delay,
                   !.max_delay = max_delay, !.on_retry = on_retry,
                   !.attempt = IF max_attempts >= 1 THEN 1 ELSE 0,
                   !.raises = IF max_attempts >= 1 THEN NoException
                              ELSE [type |-> "TypeError", attempt |-> 0],
                   !.at = IF max_attempts >= 1 THEN "try" ELSE "raised"]
    /\ UNCHANGED <<storeVars, pipeVars, codec, ocr, loop, saves>>

\* mutant: the except clause catches every exception
Caught_Any(outcome) == outcome # "value"

\* line 37 (and 59): except exceptions as e
Caught(outcome) == outcome = "matching"

\* lines 35-48: one invocation of the wrapped function; a matching exception
\* is kept, and unless this was the last attempt on_retry (or the logger) is
\* told the delay
RetryAttempt ==
    /\ rt.at = "try"
    /\ \E outcome \in {"value", "matching", "other"} :
         LET e == [type |-> outcome, attempt |-> rt.attempt]
             called == [rt EXCEPT !.calls = @ + 1]
             d == delay(rt.attempt, rt.base_delay, rt.max_delay)
         IN  rt' = IF outcome = "value" THEN [called EXCEPT !.at = "returned"]
                   ELSE IF ~Caught(outcome)
                   THEN [called EXCEPT !.at = "raised", !.raises = e]
                   ELSE IF LastAttempt(rt.attempt, rt.max_attempts)
                   THEN [called EXCEPT !.at = "raised", !.last_exception = e,
                                       !.raises = e]
                   ELSE [called EXCEPT !.at = "sleep", !.last_exception = e,
                            !.notified = IF rt.on_retry
                                         THEN Append(@, <<rt.attempt, e, d>>)
                                         ELSE @]
    /\ UNCHANGED <<storeVars, pipeVars, codec, ocr, loop, saves>>

\* line 49 and line 34: time.sleep(delay), then the next attempt of the range;
\* line 50 when the range is used up
RetrySleep ==
    /\ rt.at = "sleep"
    /\ rt' = [rt EXCEPT
                 !.sleeps = Append(@, delay(rt.attempt, rt.base_delay, rt.max_delay)),
                 !.attempt = @ + 1,
                 !.at = IF rt.attempt + 1 <= rt.max_attempts THEN "try" ELSE "raised",
                 !.raises = IF rt.attempt + 1 <= rt.max_attempts THEN @
                            ELSE rt.last_exception]
    /\ UNCHANGED <<storeVars, pipeVars, codec, ocr, loop, saves>>

InitRetry == InitStore({NoFile}) /\ NoPipes

NextRetry == RetryCall \/ RetryAttempt \/ RetrySleep

SpecRetry == InitRetry /\ [][NextRetry]_vars

(***************************************************************************)
(* Properties of retry() (checked under SpecRetry).                        *)
(***************************************************************************)
\* C16: for max_attempts >= 1 the wrapped function is invoked at most
\* max_attempts times; a returned value is that of the latest invocation,
\* all earlier ones having failed and been slept on; a matching exception
\* leaves the wrapper only as the exception of invocation max_attempts, with
\* one sleep fewer than invocations.
C16_AtMostMaxAttempts ==
    rt.max_attempts >= 1 =>
        /\ rt.calls <= rt.max_attempts
        /\ rt.at = "returned" =>
               /\ rt.calls = rt.attempt
               /\ Len(rt.sleeps) = rt.calls - 1
        /\ (rt.at = "raised" /\ rt.raises.type = "matching") =>
               /\ rt.calls = rt.max_attempts
               /\ rt.raises = [type |-> "matching", attempt |-> rt.max_attempts]
               /\ Len(rt.sleeps) = rt.max_attempts - 1
        /\ rt.at = "sleep" => rt.calls < rt.max_attempts

\* three attempts have failed with a matching exception and the third
\* exception was raised after two sleeps
C16_Witness ==
    /\ rt.at = "raised" /\ rt.max_attempts = 3 /\ rt.calls = 3
    /\ rt.raises = [type |-> "matching", attempt |-> 3]
    /\ Len(rt.sleeps) = 2

\* C17: the k-th sleep of a call follows the failure of attempt k and lasts
\* min(base_delay * 2^(k-1), max_delay); on_retry is told the same delay; the
\* delays never decrease and never exceed max_delay.
C17_BackoffDelays ==
    /\ \A k \in DOMAIN rt.sleeps :
           /\ rt.sleeps[k] = IF rt.base_delay * 2 ^ (k - 1) <= rt.max_delay
                             THEN rt.base_delay * 2 ^ (k - 1) ELSE rt.max_delay
           /\ rt.sleeps[k] <= rt.max_delay
           /\ k > 1 => rt.sleeps[k - 1] <= rt.sleeps[k]
           /\ rt.on_retry => rt.notified[k][3] = rt.sleeps[k]
    /\ rt.at = "try" => Len(rt.sleeps) = rt.attempt - 1
    /\ rt.at = "sleep" => Len(rt.sleeps) = rt.attempt - 1

\* the wrapper slept 3 seconds after the first failure and the capped 5
\* seconds after the second
C17_Witness ==
    /\ rt.sleeps = <<3, 5>>
    /\ rt.base_delay = 3 /\ rt.max_delay = 5
    /\ rt.at = "try" /\ rt.attempt = 3

\* C18: a run of the Enricher that was not ended by a failed cookie refresh
\* has fetched every pending record it read, whatever exception the fetch or
\* the patch of one of them raised.
C18_LoopSurvivesExceptions ==
    (enr.at = "end" /\ ~enr.broke /\ enr.pending # <<>>) =>
        enr.fetched = Range(enr.pending)

\* C19: every non-empty media local_path of a record on disk names a file of
\* the media directory that has content (no file is ever removed here, so
\* the file is as it was when the path was set).
C19_LocalPathMeansNonEmptyFile ==
    \A n \in DOMAIN ReadFile(archive) :
        \A m \in DOMAIN MediaOf(ReadFile(archive)[n]) :
            LET local_path == Get(MediaOf(ReadFile(archive)[n])[m], "local_path", "")
            IN  Truthy(local_path) =>
                    local_path \in DOMAIN disk /\ disk[local_path] = "full"

(***************************************************************************)
(* The shortcode codec and fetch_post_rest.  A shortcode is a sequence of  *)
(* one-character strings.                                                  *)
(***************************************************************************)
MaxCode == 3

\* line 47
IG_ALPHABET ==
    << "A", "B", "C", "D", "E", "F", "G", "H", "I", "J", "K", "L", "M",
       "N", "O", "P", "Q", "R", "S", "T", "U", "V", "W", "X", "Y", "Z",
       "a", "b", "c", "d", "e", "f", "g", "h", "i", "j", "k", "l", "m",
       "n", "o", "p", "q", "r", "s", "t", "u", "v", "w", "x", "y", "z",
       "0", "1", "2", "3", "4", "5", "6", "7", "8", "9", "-", "_" >>

index_OneBased(char) ==
    CHOOSE i \in DOMAIN IG_ALPHABET :
        IG_ALPHABET[i] = char /\ \A j \in 1..(i - 1) : IG_ALPHABET[j] # char

\* str.index of line 108 for a character of the alphabet: the zero-based
\* position of its first occurrence
index(char) ==
    (CHOOSE i \in DOMAIN IG_ALPHABET :
        IG_ALPHABET[i] = char /\ \A j \in 1..(i - 1) : IG_ALPHABET[j] # char) - 1

\* lines 106-109: the loop from character i on; str.index raises ValueError
\* for a character that is not in the alphabet
RECURSIVE PkLoop(_, _, _)
PkLoop(shortcode, i, pk) ==
    IF i > Len(shortcode) THEN [raised |-> FALSE, pk |-> pk]
    ELSE IF shortcode[i] \notin Range(IG_ALPHABET)
    THEN [raised |-> TRUE, pk |-> 0]
    ELSE PkLoop(shortcode, i + 1, pk * 64 + index(shortcode[i]))

shortcode_to_pk(shortcode) == PkLoop(shortcode, 1, 0)

\* characters of the shortcodes tried: both ends of the alphabet, one of each
\* of its ranges, and two characters of standard base64 that are not in it
CodeChars == {"A", "B", "a", "9", "-", "_", "+", "="}

Shortcodes == UNION {[1..n -> CodeChars] : n \in 0..MaxCode}

\* what the GET of line 176 can do
RestReplies == {"exception", "404", "429", "500", "invalid json", "no items", "ok"}

\* lines 168-198: one call of fetch_post_rest; the function keeps no state, so
\* one call per behaviour shows all it does
RestFetch ==
    /\ codec.at = "idle"
    /\ \E shortcode \in Shortcodes, reply \in RestReplies :
         LET decoded == shortcode_to_pk(shortcode)
             called == [RestFresh EXCEPT !.at = "returned",
                           !.shortcode = shortcode, !.decoded = 1, !.results = 1]
         IN  codec' =
                 IF decoded.raised
                 THEN [called EXCEPT !.status = "error",
                                     !.message = "invalid shortcode"]
                 ELSE LET sent == [called EXCEPT !.pk = decoded.pk, !.requests = 1]
                      IN  IF reply = "exception"
                          THEN [sent EXCEPT !.status = "error", !.message = "exception"]
                          ELSE IF reply \in {"404", "no items"}
                          THEN [sent EXCEPT !.status = "not_found"]
                          ELSE IF reply = "429"
                          THEN [sent EXCEPT !.status = "rate_limited"]
                          ELSE IF reply = "500"
                          THEN [sent EXCEPT !.status = "error"]
                          ELSE IF reply = "invalid json"
                          THEN [sent EXCEPT !.status = "error",
                                            !.message = "invalid json"]
                          ELSE [sent EXCEPT !.status = "ok"]
    /\ UNCHANGED <<storeVars, pipeVars, rt, ocr, loop, saves>>

InitCodec == InitStore({NoFile}) /\ NoPipes

NextCodec == RestFetch

SpecCodec == InitCodec /\ [][NextCodec]_vars

RECURSIVE Pow64(_)
Pow64(n) == IF n = 0 THEN 1 ELSE 64 * Pow64(n - 1)

\* the number of the position of a character in A-Z a-z 0-9 - _
PositionOf(char) == CHOOSE k \in 0..63 : IG_ALPHABET[k + 1] = char

RECURSIVE PositionalSum(_, _)
PositionalSum(s, i) ==
    IF i > Len(s) THEN 0
    ELSE PositionOf(s[i]) * Pow64(Len(s) - i) + PositionalSum(s, i + 1)

\* C20: for a shortcode over the alphabet the pk is the sum of
\* index(s[i]) * 64^(len(s)-1-i), so A -> 0, B -> 1, _ -> 63 and BA -> 64; for
\* a shortcode with a character outside the alphabet fetch_post_rest returns
\* one error result with message "invalid shortcode", having decoded once and
\* sent no request.
C20_ShortcodeCodec ==
    /\ shortcode_to_pk(<<"A">>) = [raised |-> FALSE, pk |-> 0]
    /\ shortcode_to_pk(<<"B">>) = [raised |-> FALSE, pk |-> 1]
    /\ shortcode_to_pk(<<"_">>) = [raised |-> FALSE, pk |-> 63]
    /\ shortcode_to_pk(<<"B", "A">>) = [raised |-> FALSE, pk |-> 64]
    /\ codec.at = "returned" =>
          IF Range(codec.shortcode) \subseteq Range(IG_ALPHABET)
          THEN /\ codec.pk = PositionalSum(codec.shortcode, 1)
               /\ codec.requests = 1
          ELSE /\ shortcode_to_pk(codec.shortcode).raised
               /\ codec.status = "error"
               /\ codec.message = "invalid shortcode"
               /\ codec.results = 1
               /\ codec.requests = 0
               /\ codec.decoded = 1

C20_Witness ==
    /\ codec.at = "returned"
    /\ codec.shortcode = <<"B", "_", "+">>
    /\ codec.message = "invalid shortcode"
    /\ codec.requests = 0

(***************************************************************************)
(* SpecDedup: one call of deduplicate_ocr_texts on a list of OCR pairs.    *)
(* A confidence is given in hundredths.                                    *)
(***************************************************************************)
MaxTexts == 3

OcrTexts == {"Hello", "hello", "HELLO  ", "Bye", "  "}

Confidences == {80, 90, 95}

OcrInputs ==
    UNION {[1..n -> OcrTexts \X Confidences] : n \in 0..MaxTexts}

\* lines 175-192; the function keeps no state, so one call per behaviour
\* shows all it does
Dedup ==
    /\ ocr.at = "idle"
    /\ \E texts \in OcrInputs :
         ocr' = [at |-> "returned", texts |-> texts,
                 out |-> deduplicate_ocr_texts(texts)]
    /\ UNCHANGED <<storeVars, pipeVars, rt, codec, loop, saves>>

InitDedup == InitStore({NoFile}) /\ NoPipes

NextDedup == Dedup

SpecDedup == InitDedup /\ [][NextDedup]_vars

\* the class of a text: what it is after trimming and lowercasing
ClassOf(text) == Lower(Strip(text))

ClassesOf(texts) == {ClassOf(texts[n][1]) : n \in DOMAIN texts}

\* the highest confidence of the inputs of a class
BestOf(texts, class) ==
    CHOOSE c \in Confidences :
        /\ \E n \in DOMAIN texts : ClassOf(texts[n][1]) = class /\ texts[n][2] = c
        /\ \A n \in DOMAIN texts : ClassOf(texts[n][1]) = class => texts[n][2] <= c

\* the trimmed surface forms of a class that have its highest confidence
BestForms(texts, class) ==
    {Strip(texts[n][1]) : n \in {m \in DOMAIN texts :
        ClassOf(texts[m][1]) = class /\ texts[m][2] = BestOf(texts, class)}}

\* the first input of a class that has its highest confidence
FirstBest(texts, class) ==
    CHOOSE n \in DOMAIN texts :
        /\ ClassOf(texts[n][1]) = class /\ texts[n][2] = BestOf(texts, class)
        /\ \A m \in 1..(n - 1) :
               ~(ClassOf(texts[m][1]) = class /\ texts[m][2] = BestOf(texts, class))

Reorderings(texts) ==
    {[n \in DOMAIN texts |-> texts[q[n]]] : q \in Permutations(DOMAIN texts)}

NoTies(texts) ==
    \A n, m \in DOMAIN texts : n # m => texts[n][2] # texts[m][2]

\* the output has one entry per class of classes, each of them best(class),
\* in descending order of confidence
OnePerClass(texts, out, classes, best(_)) ==
    /\ Len(out) = Cardinality(classes)
    /\ \A class \in classes :
           \E r \in DOMAIN out : ClassOf(out[r]) = class /\ best(class)[out[r]]
    /\ \A r, s \in DOMAIN out :
           r < s => BestOf(texts, ClassOf(out[r])) >= BestOf(texts, ClassOf(out[s]))

\* C21 as stated: one entry per class of inputs, a surface form of highest
\* confidence of the class, in descending order of confidence, and the same
\* list for every permutation of the input.
C21_DedupOrderFree ==
    ocr.at = "returned" =>
        /\ OnePerClass(ocr.texts, ocr.out, ClassesOf(ocr.texts),
                       LAMBDA class : [t \in Range(ocr.out) |->
                                          t \in BestForms(ocr.texts, class)])
        /\ \A other \in Reorderings(ocr.texts) :
               deduplicate_ocr_texts(other) = ocr.out

\* C21: one entry per class of the inputs that are not blank after trimming,
\* the trimmed surface form of the first input of highest confidence of the
\* class, in descending order of confidence; blank inputs give no entry; the
\* list is the same for every permutation of an input whose confidences are
\* pairwise distinct.
C21_DedupFirstBestPerClass ==
    ocr.at = "returned" =>
        /\ OnePerClass(ocr.texts, ocr.out, ClassesOf(ocr.texts) \ {""},
                       LAMBDA class : [t \in Range(ocr.out) |->
                          t = Strip(ocr.texts[FirstBest(ocr.texts, class)][1])])
        /\ NoTies(ocr.texts) =>
               \A other \in Reorderings(ocr.texts) :
                   deduplicate_ocr_texts(other) = ocr.out

C21_Witness ==
    /\ ocr.at = "returned"
    /\ ocr.texts = << <<"Hello", 90>>, <<"hello", 95>>, <<"HELLO  ", 80>> >>
    /\ ocr.out = <<"hello">>

(***************************************************************************)
(* SpecSync: one Bootstrap sync, alone on an archive of three records or   *)
(* on an empty store.                                                      *)
(***************************************************************************)
SyncFeeds == Feeds \cup {<<ApiPost("d")>>, <<ApiPost("d"), ApiPost("e")>>,
                         <<ApiPost("d"), ApiPost("d")>>}

InitSync ==
    /\ InitStore({FullFile(PipesArchive), NoFile})
    /\ NoPipes

NextSync ==
    \/ BootStart
    \/ BootFeed(SyncFeeds, DownloadOutcomes)
    \/ BootDone
    \/ SRead("boot") \/ WCreate("boot") \/ WDump("boot")
    \/ WFail("boot") \/ WMove("boot") \/ SReturn("boot")

SpecSync == InitSync /\ [][NextSync]_vars

\* a sync that ran to its end without an error
SyncCompleted ==
    boot.at = "end" /\ boot.last \in {"nothing fetched", "nothing new", "appended"}

\* the store holds the records it held when the sync started, unchanged, and
\* after them records with ids it did not hold, each once
OnlyNewAdded ==
    LET posts == ReadFile(archive)
        n == Len(boot.existing)
    IN  /\ Len(posts) >= n
        /\ SubSeq(posts, 1, n) = boot.existing
        /\ \A m \in (n + 1)..Len(posts) :
               /\ posts[m].id \notin boot.existing_ids
               /\ \A k \in (n + 1)..Len(posts) : posts[k].id = posts[m].id => k = m

\* C22: after a sync the store holds what it held, unchanged, plus records
\* with ids that were not in it, and the instagram:saved cursor exists and
\* its total_items is the number of records of the store.
C22_SyncAddsNewAndSavesCursor ==
    SyncCompleted =>
        /\ OnlyNewAdded
        /\ "instagram:saved" \in DOMAIN tracker
        /\ tracker["instagram:saved"].last_sync_status = "success"
        /\ tracker["instagram:saved"].total_items = Len(ReadFile(archive))

(***************************************************************************)
(* SpecLoop: the control of run_enrichment over pending lists long enough  *)
(* for the cooldowns: the fetches, the counters, the pauses.  The archive  *)
(* is left out: apply_results returns or raises.  save_every and delay     *)
(* have their defaults.                                                    *)
(***************************************************************************)
\* the proactive cooldowns a run of the model goes through
MaxCooldowns == 1

\* len(pending), line 474
PendingLengths == {1, 2} \cup {COOLDOWN_EVERY * k + 1 : k \in 1..MaxCooldowns}

\* the kinds of replies of the endpoints in a long run
LoopKinds == {"ok", "not_found", "rate_limited", "error", "invalid json", "raised"}

\* the replies to a fetch of the loop while GraphQL is available, and after
LoopRepliesOn ==
    {f \in FetchReplies(TRUE, "p", LoopKinds) :
        OkResult("p", "", <<>>) \notin {f.graphql, f.rest}}

LoopRepliesOff ==
    {f \in FetchReplies(FALSE, "p", LoopKinds) : f.rest # OkResult("p", "", <<>>)}

SaveNow_NotOnRateLimit(i, n, save_every, rate_limited, cooldown) ==
    \/ (i + 1) % save_every = 0
    \/ i = n - 1
    \/ cooldown

\* line 555
SaveNow(i, n, save_every, rate_limited, cooldown) ==
    \/ (i + 1) % save_every = 0
    \/ i = n - 1
    \/ rate_limited
    \/ cooldown

\* lines 593-601 and 610-617: get_chrome_cookies and build_session, or the
\* exception of get_chrome_cookies
Refresh(refreshed) ==
    IF refreshed THEN <<"cookies", "session">> ELSE <<"cookies failed">>

Pause_NoDelay(i, n, rate_limited, cooldown, refreshed) ==
    IF rate_limited THEN <<"sleep 60">> \o Refresh(refreshed)
    ELSE IF cooldown THEN <<"sleep 120">> \o Refresh(refreshed)
    ELSE <<>>

\* lines 589-620: what the iteration does after the save
Pause(i, n, rate_limited, cooldown, refreshed) ==
    IF rate_limited THEN <<"sleep 60">> \o Refresh(refreshed)
    ELSE IF cooldown THEN <<"sleep 120">> \o Refresh(refreshed)
    ELSE IF i < n - 1 THEN <<"sleep delay">>
    ELSE <<>>

\* lines 458-495: the session is built, the flag is set, the auth test is
\* fetched (an error result exits), pending is read
LoopStart ==
    /\ loop.at = "start"
    /\ \E n \in PendingLengths \cup {0},
          t \in FetchReplies(TRUE, TestShortcode, LoopKinds) :
         LET test == fetch_post_by_shortcode(TRUE, t.graphql, t.rest)
             stop == test.result.status \in {"error", "raised"}
         IN  loop' = [LoopFresh EXCEPT
                 !.n = IF stop THEN 0 ELSE n,
                 !.graphql_available = test.graphql_available,
                 !.first = TRUE,
                 !.status = test.result.status,
                 !.requests = test.requests,
                 !.raised = test.result.status = "raised",
                 !.at = IF stop \/ n = 0 THEN "end" ELSE "loop"]
    /\ UNCHANGED <<storeVars, pipeVars, rt, codec, ocr, saves>>

\* lines 512-620: one iteration of the loop
LoopStep ==
    /\ loop.at = "loop"
    /\ \E f \in IF loop.graphql_available THEN LoopRepliesOn ELSE LoopRepliesOff,
          applied \in BOOLEAN, refreshed \in BOOLEAN :
         LET fetch == fetch_post_by_shortcode(loop.graphql_available, f.graphql, f.rest)
             status == fetch.result.status
             rate_limited == loop.rate_limited \/ status = "rate_limited"
             counted == IF status \in {"ok", "not_found"} THEN 0
                        ELSE loop.consecutive_failures + 1
             cooldown == needs_cooldown(loop.i, counted)
             save == SaveNow(loop.i, loop.n, EnrDefaults.save_every, rate_limited, cooldown)
             pause == rate_limited \/ cooldown
             more == loop.i < loop.n - 1
             asked == [loop EXCEPT
                          !.graphql_available = fetch.graphql_available,
                          !.status = status, !.requests = fetch.requests,
                          !.first = "session" \in Range(loop.events)]
             counts == [asked EXCEPT
                          !.rate_limited = rate_limited,
                          !.consecutive_failures = counted,
                          !.peaked = counted >= MAX_CONSECUTIVE_FAILURES]
         IN  /\ save \/ applied
             /\ (pause /\ applied /\ status # "raised") \/ refreshed
             /\ loop' =
                  IF status = "raised"
                  THEN [asked EXCEPT !.at = "end", !.raised = TRUE, !.events = <<>>]
                  ELSE IF ~applied
                  THEN [counts EXCEPT !.at = "end", !.raised = TRUE, !.events = <<>>]
                  ELSE LET did == (IF save THEN <<"save">> ELSE <<>>) \o
                                  Pause(loop.i, loop.n, rate_limited, cooldown, refreshed)
                       IN  IF ~refreshed
                           THEN [counts EXCEPT !.at = "end", !.events = did]
                           ELSE [counts EXCEPT
                                    !.events = did,
                                    !.rate_limited = FALSE,
                                    !.consecutive_failures = IF pause THEN 0 ELSE @,
                                    !.at = IF more THEN "loop" ELSE "end",
                                    !.i = IF more THEN @ + 1 ELSE @]
    /\ UNCHANGED <<storeVars, pipeVars, rt, codec, ocr, saves>>

InitLoop == InitStore({NoFile}) /\ NoPipes

NextLoop == LoopStart \/ LoopStep

SpecLoop == InitLoop /\ [][NextLoop]_vars

\* the loop is about to issue its next per-record fetch
NextFetchDue == loop.at = "loop"

\* C23: the first fetch of every session, the one built at the start as well
\* as one rebuilt after a rate-limit pause or a cooldown, asks GraphQL first.
C23_NewSessionTriesGraphqlFirst ==
    loop.first => Head(loop.requests) \in {"graphql", "checkpoint"}

\* C24: when the fetch before the one now due returned rate_limited, the loop
\* has since saved the batch, slept 60 seconds, read the cookies and built the
\* session, in that order, and the consecutive-failure counter is 0.
C24_RateLimitedThenSavedPausedRefreshed ==
    (NextFetchDue /\ loop.i > 0 /\ loop.status = "rate_limited") =>
        /\ loop.events = <<"save", "sleep 60", "cookies", "session">>
        /\ loop.consecutive_failures = 0
        /\ ~loop.rate_limited

C24_Witness ==
    /\ NextFetchDue
    /\ loop.i = 2
    /\ loop.status = "rate_limited"
    /\ loop.events = <<"save", "sleep 60", "cookies", "session">>

\* C26: when the fetch now due follows the (COOLDOWN_EVERY * k)-th fetch, the
\* loop has since slept 120 seconds and read the cookies, whatever that
\* fetch returned.
C26_CooldownEvery600Unconditional ==
    (NextFetchDue /\ loop.i > 0 /\ loop.i % COOLDOWN_EVERY = 0) =>
        /\ "sleep 120" \in Range(loop.events)
        /\ "cookies" \in Range(loop.events)

\* C27: when a fetch left the consecutive-failure counter at
\* MAX_CONSECUTIVE_FAILURES or more, the loop has slept 120 seconds, read the
\* cookies and reset the counter before the next fetch; no fetch is due while
\* the counter is at MAX_CONSECUTIVE_FAILURES or more; an ok or not_found
\* result leaves the counter at 0.
C27_CooldownAfterTenFailures ==
    /\ (NextFetchDue /\ loop.i > 0 /\ loop.peaked) =>
           /\ "sleep 120" \in Range(loop.events)
           /\ "cookies" \in Range(loop.events)
           /\ loop.consecutive_failures = 0
    /\ NextFetchDue => loop.consecutive_failures < MAX_CONSECUTIVE_FAILURES
    /\ (loop.i > 0 /\ loop.status \in {"ok", "not_found"}) => loop.consecutive_failures = 0

\* the sleeps of the iteration of the last fetch
Sleeps == SelectSeq(loop.events, LAMBDA e : e \in {"sleep delay", "sleep 60", "sleep 120"})

\* C28: every per-record fetch but the first comes after exactly one sleep
\* since the fetch before it: delay seconds, 60 after a rate_limited result,
\* or 120 at a cooldown.
C28_OneSleepBetweenFetches ==
    (NextFetchDue /\ loop.i > 0) =>
        /\ Len(Sleeps) = 1
        /\ Sleeps[1] = "sleep 60" <=> loop.status = "rate_limited"

C28_Witness ==
    /\ NextFetchDue
    /\ loop.i = COOLDOWN_EVERY
    /\ loop.status = "ok"
    /\ Sleeps = <<"sleep 120">>

\* C25: a run whose cookie refresh failed has stopped fetching, and the sync
\* state records that it stopped early: a cursor is there and none of the
\* cursors says success.
C25_FailedRefreshMarksCursor ==
    enr.broke =>
        /\ enr.at = "end"
        /\ tracker # NoCursors
        /\ \A key \in DOMAIN tracker : tracker[key].last_sync_status # "success"

\* C29: a fetch whose request met a transport error (the GET raised
\* RequestException) has asked again before it returned the error result.
C29_TransportErrorRetried ==
    (codec.at = "returned" /\ codec.status = "error" /\ codec.message = "exception") =>
        codec.requests > 1

(***************************************************************************)
(* SpecAbandon: Enricher runs, one after the other, some of them killed    *)
(* while a download task writes its file.                                  *)
(***************************************************************************)
\* what write_bytes (line 318) leaves when the process is killed inside it:
\* the file just created, or some of the content
Abandoned == {"empty", "partial"}

\* lines 513-524 and 313-318: the fetch of the next pending record returns a
\* post with media, its download task is submitted and gets the content, and
\* the process is killed while the task writes the file
EnrAbandon ==
    /\ enr.at = "loop"
    /\ pc["enr"] = "idle"
    /\ enr.opts.download_media
    /\ \E left \in Abandoned :
         LET shortcode == enr.pending[enr.i + 1]
             filepath == MediaPath(shortcode, "u1")
             downloaded == filepath \in DOMAIN disk /\ disk[filepath] \in {"full", "partial"}
         IN  /\ ~downloaded
             /\ disk' = Put(disk, filepath, left)
    /\ enr' = [enr EXCEPT !.at = "end", !.results_batch = <<>>,
                          !.fetched = @ \cup {enr.pending[enr.i + 1]}]
    /\ UNCHANGED <<storeVars, ext, dl, boot, tracker, utilVars>>

NextAbandon ==
    \/ EnrStart({EnrDefaults}, {"ok"})
    \/ EnrFetch({"ok", "error"}, {"full", "failed"})
    \/ EnrSaved
    \/ EnrAbandon
    \/ PLock("enr") \/ SRead("enr") \/ WCreate("enr") \/ WDump("enr")
    \/ WMove("enr") \/ PUnlock("enr")

SpecAbandon == InitEnrich /\ [][NextAbandon]_vars

\* C30: no record on disk has a local_path that names a file a killed
\* download left partly written.
C30_PartialFileNeverAccepted ==
    \A n \in DOMAIN ReadFile(archive) :
        \A m \in DOMAIN MediaOf(ReadFile(archive)[n]) :
            LET local_path == Get(MediaOf(ReadFile(archive)[n])[m], "local_path", "")
            IN  Truthy(local_path) =>
                    ~(local_path \in DOMAIN disk /\ disk[local_path] = "partial")

(***************************************************************************)
(* SpecPostOcr: the media loop of run_extraction for one post, neither     *)
(* phase skipped, with the answers of ffmpeg, Whisper and EasyOCR as       *)
(* inputs.  A media item is its media_type, what its audio gave, and the   *)
(* (text, confidence) pairs EasyOCR returns for it, for a video those of   *)
(* its sampled frames, one frame after the other.  Confidences are in      *)
(* hundredths.                                                             *)
(***************************************************************************)
MIN_OCR_CONFIDENCE == 50

MIN_TEXT_LENGTH == 2

MaxMedia == 2

MaxPairs == 2

\* len() on the texts of the model
TextLen(text) ==
    IF text = "" THEN 0
    ELSE IF text = "a" THEN 1
    ELSE IF text = "Bye" THEN 3
    ELSE 5

\* ocr_image, lines 165-169: the pairs that pass the filter
Recognised(pairs) ==
    SelectSeq(pairs, LAMBDA p : /\ p[2] >= MIN_OCR_CONFIDENCE
                                /\ TextLen(Strip(p[1])) >= MIN_TEXT_LENGTH)

\* process_video, lines 230-240: the texts of the frames, deduplicated
FrameTexts(pairs) == deduplicate_ocr_texts(Recognised(pairs))

\* process_video, lines 221-241, without the OCR of the frames when there is
\* no audio
process_video_AudioFirst(m) ==
    [audio_transcript |-> IF m.audio = "said" THEN "said" ELSE "",
     ocr_texts |-> IF m.audio = "said" THEN FrameTexts(m.pairs) ELSE <<>>]

\* process_video, lines 221-241, on what ffmpeg, Whisper and EasyOCR answer:
\* extract_audio_from_video gives None (lines 85-94), or transcribe_audio
\* gives "" when Whisper raises (lines 103-105), and the frames are read
\* whatever the audio gave
process_video_of(m) ==
    [audio_transcript |-> IF m.audio = "said" THEN "said" ELSE "",
     ocr_texts |-> FrameTexts(m.pairs)]

\* run_extraction, lines 370-394 with neither --skip flag
RECURSIVE PostMedia(_, _)
PostMedia(media, acc) ==
    IF media = <<>> THEN acc
    ELSE IF Head(media).media_type = "video"
    THEN LET vid_result == process_video_of(Head(media))
         IN  PostMedia(Tail(media),
                 [audio_transcripts |->
                      IF vid_result.audio_transcript # ""
                      THEN Append(acc.audio_transcripts, vid_result.audio_transcript)
                      ELSE acc.audio_transcripts,
                  post_ocr_all |-> acc.post_ocr_all \o
                      [i \in DOMAIN vid_result.ocr_texts |->
                          <<vid_result.ocr_texts[i], 100>>]])
    ELSE PostMedia(Tail(media),
             [acc EXCEPT !.post_ocr_all = @ \o Recognised(Head(media).pairs)])

OcrPairs ==
    {<<"Hello", 80>>, <<"Hello", 90>>, <<"hello", 80>>, <<"hello", 90>>,
     <<"Bye", 80>>, <<"Bye", 40>>, <<"a", 90>>}

PairLists == UNION {[1..n -> OcrPairs] : n \in 0..MaxPairs}

\* the audio of a video: transcribed, not extracted by ffmpeg, or extracted
\* and Whisper raises
MediaItems ==
    [media_type : {"video"}, pairs : PairLists,
     audio : {"said", "no audio", "whisper raised"}]
    \cup [media_type : {"image"}, pairs : PairLists, audio : {"none"}]

MediaInputs == UNION {[1..n -> MediaItems] : n \in 0..MaxMedia}

NoSkip == [skip_whisper |-> FALSE, skip_ocr |-> FALSE]

VideosOf(media) == {i \in DOMAIN media : media[i].media_type = "video"}

\* lines 361-403 for one post that is the run's only candidate; the loop
\* keeps no state between posts
PostOcr ==
    /\ ocr.at = "idle"
    /\ \E media \in MediaInputs :
         LET r == PostMedia(media, [audio_transcripts |-> <<>>, post_ocr_all |-> <<>>])
         IN  ocr' = [at |-> "extracted", texts |-> media,
                     out |-> [audio_transcripts |-> r.audio_transcripts,
                              ocr_texts |-> deduplicate_ocr_texts(r.post_ocr_all),
                              extraction_status |->
                                  extraction_status(NoSkip,
                                      Cardinality(VideosOf(media)))]]
    /\ UNCHANGED <<storeVars, pipeVars, rt, codec, loop, saves>>

NextPostOcr == PostOcr

SpecPostOcr == InitDedup /\ [][NextPostOcr]_vars

\* every pair recognised in any media item of the post, in media order
RECURSIVE AllPairs(_)
AllPairs(media) ==
    IF media = <<>> THEN <<>> ELSE Head(media).pairs \o AllPairs(Tail(media))

\* C31: the ocr_texts of a post are the reference result over all pairs
\* recognised in its media items, videos and images alike: the pairs with
\* confidence >= 0.5 and trimmed length >= 2, one entry per class of trimmed
\* lowercase text, a surface form of the highest confidence of the class
\* among all media items, in descending order of that confidence.
C31_PostOcrIsReference ==
    ocr.at = "extracted" =>
        LET all == Recognised(AllPairs(ocr.texts))
        IN  OnePerClass(all, ocr.out.ocr_texts, ClassesOf(all),
                        LAMBDA class : [t \in Range(ocr.out.ocr_texts) |->
                                           t \in BestForms(all, class)])

(***************************************************************************)
(* The extraction_status of the patches of a run, checked on SpecExtract.  *)
(***************************************************************************)
HasVideo(post) ==
    \E i \in DOMAIN MediaOf(post) : Get(MediaOf(post)[i], "media_type", None) = "video"

\* C32: the extraction_status patched on a record is partial:no_ocr when OCR
\* was skipped, partial:no_audio exactly when Whisper was skipped and the
\* record itself has video media, and complete otherwise (an image-only
\* record processed with Whisper skipped is complete).
C32_StatusIsPerRecord ==
    \A n \in DOMAIN ext.candidates :
        LET candidate == ext.candidates[n]
        IN  candidate.id \in DOMAIN ext.pending_patches =>
                ext.pending_patches[candidate.id].extracted_text.extraction_status =
                    IF ext.opts.skip_ocr THEN "partial:no_ocr"
                    ELSE IF ext.opts.skip_whisper /\ HasVideo(candidate)
                    THEN "partial:no_audio"
                    ELSE "complete"

\* C33: a video whose audio extraction fails while the OCR of its frames
\* succeeds (neither phase skipped) neither changes the status nor stops the
\* record: audio_transcripts holds the transcripts of the videos whose audio
\* succeeded and nothing else ([] when there is none), ocr_texts is not
\* empty, extraction_status is complete, and every text recognised in any
\* other media item of the record has its entry in ocr_texts.
C33_FailedAudioKeepsRecord ==
    ocr.at = "extracted" =>
        \A i \in VideosOf(ocr.texts) :
            ocr.texts[i].audio # "said" /\ Recognised(ocr.texts[i].pairs) # <<>> =>
                /\ ocr.out.audio_transcripts =
                       [n \in 1..Cardinality({j \in VideosOf(ocr.texts) :
                                                ocr.texts[j].audio = "said"}) |-> "said"]
                /\ ocr.out.ocr_texts # <<>>
                /\ ocr.out.extraction_status = "complete"
                /\ ClassesOf(Recognised(AllPairs(ocr.texts))) =
                       {ClassOf(ocr.out.ocr_texts[r]) : r \in DOMAIN ocr.out.ocr_texts}

C33_Witness ==
    /\ ocr.at = "extracted"
    /\ ocr.texts = <<[media_type |-> "video", pairs |-> << <<"hello", 80>> >>,
                      audio |-> "no audio"],
                     [media_type |-> "image", pairs |-> << <<"Bye", 80>> >>,
                      audio |-> "none"]>>
    /\ ocr.out = [audio_transcripts |-> <<>>, ocr_texts |-> <<"hello", "Bye">>,
                  extraction_status |-> "complete"]

(***************************************************************************)
(* The Extractor's writes among those of the other pipelines, checked on   *)
(* SpecPipes.                                                              *)
(***************************************************************************)
\* the fields of a record other than extracted_text
Rest(post) == [f \in (DOMAIN post) \ {"extracted_text"} |-> post[f]]

\* C34: a write of the archive by the Extractor changes no field other than
\* extracted_text: every record, and every field of it except extracted_text,
\* is after the write what the other writers had last written, also when the
\* Enricher has written between the Extractor's read of its candidates and
\* its save.
C34_ExtractorWritesOnlyExtractedText ==
    [][(pc["ext"] = "move" /\ pc'["ext"] = "unlock") =>
           /\ Len(ReadFile(archive')) = Len(ReadFile(archive))
           /\ \A n \in DOMAIN ReadFile(archive) :
                  Rest(ReadFile(archive')[n]) = Rest(ReadFile(archive)[n])]_vars

(***************************************************************************)
(* A failing write(), checked on SpecEnrich.                               *)
(***************************************************************************)
\* C35: when write() raises after mkstemp has made the temporary file, in
\* the dump or in the rename, the archive file keeps its contents, the
\* temporary file is removed, and the exception reaches the caller of
\* patch_items after patch_items has released the lock.
C35_FailedWriteLeavesArchive ==
    [][\A p \in Procs :
          /\ (pc[p] \in {"dump", "move"} /\ failed'[p]) =>
                 /\ fs'[ArchivePath] = fs[ArchivePath]
                 /\ fs'[TempPath(p)] = NoFile
                 /\ pc'[p] = IF call[p].op = "patch" THEN "unlock" ELSE "return"
          /\ (pc[p] = "unlock" /\ failed[p] /\ pc'[p] = "idle") =>
                 /\ lock = p /\ lock' = NoProc
                 /\ failed'[p]
                 /\ fs' = fs]_vars

\* the second save of a run has failed: the archive holds what the first
\* save wrote, no temporary file, the lock is free, the caller has the error
C35_Witness ==
    /\ pc["enr"] = "idle" /\ failed["enr"] /\ enr.at = "saving"
    /\ call["enr"].op = "patch"
    /\ lock = NoProc
    /\ fs[TempPath("enr")] = NoFile
    /\ ReadFile(archive) # EnrichArchive

(***************************************************************************)
(* SpecLock: two processes call patch_items on one file, call after call;  *)
(* the file may be one that read() cannot parse, and a write may fail.     *)
(* Every process that can take a step takes one in the end, and a process  *)
(* that finds the lock free again and again gets it in the end.            *)
(***************************************************************************)
InitLock ==
    /\ InitStore({FullFile(PatchInit), [st |-> "partial", items |-> PatchInit]})
    /\ NoPipes

\* the steps of a patch_items call once it holds the lock
Locked(p) ==
    SRead(p) \/ WCreate(p) \/ WDump(p) \/ WFail(p) \/ WMove(p) \/ PUnlock(p)

NextLock ==
    \E p \in Writers : WriterPatch(p) \/ PLock(p) \/ Locked(p)

SpecLock ==
    /\ InitLock /\ [][NextLock]_vars
    /\ \A p \in Writers : SF_vars(PLock(p)) /\ WF_vars(Locked(p))

\* the same with a lock that only promises a step to a process that can take
\* it without interruption
SpecLockWeak ==
    /\ InitLock /\ [][NextLock]_vars
    /\ \A p \in Writers : WF_vars(PLock(p)) /\ WF_vars(Locked(p))

\* p is between its re-read and the end of its write
InCall(p) == pc[p] \in {"read", "create", "dump", "move", "unlock"}

C37_EveryResultHandedOnce ==
    /\ enr.at = "loop" => enr.handed \o enr.results_batch = enr.results
    /\ enr.at = "saving" => enr.handed = enr.results
    /\ enr.at = "end" => enr.handed = enr.results
    /\ (enr.at = "end" /\ ~enr.raised) =>
           enr.results_batch = <<>> /\ enr.pending_futures = <<>>

(***************************************************************************)
(* SpecTracker: the Enricher (apply_results) and the Bootstrap (run_sync)  *)
(* save their cursors in the sync state file at the same time, as two      *)
(* processes.  An entry of the file is a cursor with its key.              *)
(***************************************************************************)
MaxSaves == 2

\* the counts the pipelines pass to mark_success
TotalItems == {1, 2}

Savers == {"enr", "boot"}

\* browser_enricher.py line 430, api_bootstrap.py line 384
SaveKey(p) == IF p = "enr" THEN "instagram:enrichment" ELSE "instagram:saved"

HasKey(items, key) == \E i \in DOMAIN items : items[i].key = key

\* the first entry with this key
KeyIndex(items, key) ==
    CHOOSE i \in DOMAIN items :
        items[i].key = key /\ \A j \in 1..(i - 1) : items[j].key # key

\* SyncTracker.get, lines 22-28, then mark_success, then lines 32-33 of save:
\* the cursor to save and the list save() has read
SaveRead(p) ==
    /\ saves[p].at = "idle"
    /\ saves[p].n < MaxSaves
    /\ \E total_items \in TotalItems :
         LET key == SaveKey(p)
             cursor == IF HasKey(saves.file, key)
                       THEN saves.file[KeyIndex(saves.file, key)]
                       ELSE [key |-> key] @@ BlankCursor
         IN  saves' = [saves EXCEPT
                 ![p] = [at |-> "write", items |-> saves.file,
                         cursor |-> mark_success(cursor, total_items),
                         n |-> saves[p].n + 1]]
    /\ UNCHANGED <<storeVars, pipeVars, rt, codec, ocr, loop>>

\* SyncTracker.save, lines 34-42: the entry replaced or appended in the list
\* read before, and store.write of that list (the rename of its temp file)
SaveWrite(p) ==
    /\ saves[p].at = "write"
    /\ LET items == saves[p].items
           cursor == saves[p].cursor
       IN  saves' = [saves EXCEPT
               !.file = IF HasKey(items, cursor.key)
                        THEN [items EXCEPT ![KeyIndex(items, cursor.key)] = cursor]
                        ELSE Append(items, cursor),
               !.last = Put(@, cursor.key, cursor),
               ![p] = [@ EXCEPT !.at = "idle"]]
    /\ UNCHANGED <<storeVars, pipeVars, rt, codec, ocr, loop>>

InitTracker == InitStore({NoFile}) /\ NoPipes

NextTracker == \E p \in Savers : SaveRead(p) \/ SaveWrite(p)

SpecTracker == InitTracker /\ [][NextTracker]_vars

\* C38: whatever the interleaving of the save calls of the Enricher and of
\* the Bootstrap, the sync state file holds at most one entry per key and,
\* for every key ever saved, the cursor saved latest under that key; a save
\* under one key neither removes nor alters the entry of another key.
C38_SavesKeepOtherKeys ==
    /\ [](\A i, j \in DOMAIN saves.file :
              saves.file[i].key = saves.file[j].key => i = j)
    /\ [](\A key \in DOMAIN saves.last :
              \E i \in DOMAIN saves.file : saves.file[i] = saves.last[key])
    /\ [][\A p \in Savers :
             (saves[p].at = "write" /\ saves'[p].at = "idle") =>
                 \A i \in DOMAIN saves.file :
                     saves.file[i].key # SaveKey(p) =>
                         \E j \in DOMAIN saves'.file : saves'.file[j] = saves.file[i]]_vars

(***************************************************************************)
(* SpecFetch: the calls of fetch_post_by_shortcode of one process, one     *)
(* after the other, with every reply of the two endpoints; the module's    *)
(* flag _graphql_available goes from one call to the next.  codec holds    *)
(* the latest call: the flag before it, the replies, what it gave.         *)
(***************************************************************************)
MaxFetches == 3

FetchShortcodes == {"a", "b", "c"}

\* one call, lines 243-263
Fetch ==
    /\ codec.at \in {"idle", "fetched"}
    /\ LET n == IF codec.at = "idle" THEN 0 ELSE codec.n
           flag == IF codec.at = "idle" THEN TRUE ELSE codec.out.graphql_available
       IN  /\ n < MaxFetches
           /\ \E shortcode \in FetchShortcodes :
                \E f \in FetchReplies(flag, shortcode, ReplyKinds) :
                    codec' = [at |-> "fetched", n |-> n + 1, flag |-> flag,
                              graphql |-> f.graphql, rest |-> f.rest,
                              out |-> fetch_post_by_shortcode(flag, f.graphql, f.rest)]
    /\ UNCHANGED <<storeVars, pipeVars, rt, ocr, loop, saves>>

NextFetch == Fetch

SpecFetch == InitCodec /\ [][NextFetch]_vars

\* C39: a call asks REST only when the flag was already false or the GraphQL
\* result of this call is the error "invalid json"; every other GraphQL
\* result is returned as it is, after one request, with the flag still true;
\* a call makes at most two requests, and an invalid-JSON answer of REST is
\* returned as that error, REST being the last request.
C39_RestOnlyAfterCheckpoint ==
    codec.at = "fetched" =>
        LET out == codec.out
            asked(endpoint) == \E n \in DOMAIN out.requests : out.requests[n] = endpoint
        IN  /\ asked("rest") => (~codec.flag \/ Kind(codec.graphql) = "invalid json")
            /\ (codec.flag /\ Kind(codec.graphql) # "invalid json") =>
                   /\ out.result = codec.graphql
                   /\ out.graphql_available
                   /\ out.requests = <<"graphql">>
            /\ Len(out.requests) <= 2
            /\ Kind(out.result) = "invalid json" =>
                   /\ out.result = codec.rest
                   /\ out.requests[Len(out.requests)] = "rest"
                   /\ ~out.graphql_available

\* the second call of a session: GraphQL answers with the checkpoint page
\* and REST with a body that is not JSON
C39_Witness ==
    /\ codec.at = "fetched" /\ codec.n = 2 /\ codec.flag
    /\ Kind(codec.graphql) = "invalid json"
    /\ Kind(codec.rest) = "invalid json"
    /\ codec.out.requests = <<"checkpoint", "rest">>
    /\ codec.out.result = codec.rest
    /\ ~codec.out.graphql_available

(***************************************************************************)
(* An exception the wrapper does not catch, checked on SpecRetry.          *)
(***************************************************************************)
\* C40: an exception of the wrapped function that does not match the
\* configured exceptions leaves the wrapper on the attempt where it occurs:
\* it is never kept for a retry, no sleep follows it, and the invocation that
\* raised it is the last one (the sleeps are those after the earlier,
\* matching failures).
C40_OtherExceptionPropagates ==
    /\ rt.last_exception.type # "other"
    /\ rt.at = "sleep" => rt.last_exception.type = "matching"
    /\ (rt.at = "raised" /\ rt.raises.type = "other") =>
           /\ rt.raises.attempt = rt.attempt
           /\ rt.calls = rt.raises.attempt
           /\ Len(rt.sleeps) = rt.calls - 1

\* the second of three attempts raises an exception that does not match
C40_Witness ==
    /\ rt.at = "raised" /\ rt.raises = [type |-> "other", attempt |-> 2]
    /\ rt.max_attempts = 3
    /\ rt.calls = 2
    /\ Len(rt.sleeps) = 1

====
